---- MODULE Spec2Model ----
(***************************************************************************)
(* Model of pdfdo-web: the page-selection logic of splitPdf (lib/pdf-utils) *)
(* and the SplitTool panel that drives it.                                  *)
(*                                                                          *)
(* Strings are sequences of one-character strings.  JavaScript arrays are   *)
(* sequences; At(arr, i) is the 0-based read arr[i].  An optional argument  *)
(* is a record [some, val]: None is JavaScript's undefined.                 *)
(***************************************************************************)
EXTENDS Integers, Sequences, FiniteSets, TLC

(***************************************************************************)
(* Bounds of the model.                                                     *)
(***************************************************************************)
\* pages of the document handed to splitPdf in SpecSplit
NPages == 6
\* comma-separated tokens in a range string
MaxTokens == 2
\* length of a selectedPages list
MaxSel == 2
\* pages of the two loadable documents offered to SplitTool
PagesA == 2
PagesB == 1
\* pages of long.pdf, one more than the thumbnail loop renders
PagesLong == 51
\* handleFilesSelected calls that may be suspended at the same time
MaxLoads == 2
\* distinct values Date.now() takes while page ids are made
MaxStamp == 1

(***************************************************************************)
(* Generic helpers for JavaScript values.                                   *)
(***************************************************************************)
None == [some |-> FALSE, val |-> <<>>]

Some(v) == [some |-> TRUE, val |-> v]

At(arr, i) == arr[i + 1]

\* Array.from({ length: pageCount }, (_, i) => i)
ArrayFromLength(n) == [i \in 1..n |-> i - 1]

\* Array.prototype.includes
Includes(arr, x) == \E i \in 1..Len(arr) : arr[i] = x

\* Array.prototype.filter with the predicate given as a set of kept values
FilterSeq(arr, keep) ==
  LET Kept(x) == x \in keep IN SelectSeq(arr, Kept)

(***************************************************************************)
(* String functions used by the 'ranges' branch of splitPdf.                *)
(***************************************************************************)
Digits == {"0", "1", "2", "3", "4", "5", "6", "7", "8", "9"}

DigitVal(c) ==
  CASE c = "0" -> 0 [] c = "1" -> 1 [] c = "2" -> 2 [] c = "3" -> 3
    [] c = "4" -> 4 [] c = "5" -> 5 [] c = "6" -> 6 [] c = "7" -> 7
    [] c = "8" -> 8 [] c = "9" -> 9

WhiteSpace == {" "}

\* the value parseInt returns for a string with no leading number
NaN == [nan |-> TRUE, n |-> 0]

Num(n) == [nan |-> FALSE, n |-> n]

\* String.prototype.split(sep) for a one-character separator
RECURSIVE SplitOn(_, _, _)
SplitOn(s, sep, cur) ==
  IF s = <<>> THEN <<cur>>
  ELSE IF Head(s) = sep
       THEN <<cur>> \o SplitOn(Tail(s), sep, <<>>)
       ELSE SplitOn(Tail(s), sep, Append(cur, Head(s)))

Split(s, sep) == SplitOn(s, sep, <<>>)

RECURSIVE TrimStart(_)
TrimStart(s) ==
  IF s # <<>> /\ Head(s) \in WhiteSpace THEN TrimStart(Tail(s)) ELSE s

RECURSIVE TrimEnd(_)
TrimEnd(s) ==
  IF s # <<>> /\ s[Len(s)] \in WhiteSpace
  THEN TrimEnd(SubSeq(s, 1, Len(s) - 1))
  ELSE s

\* String.prototype.trim
Trim(s) == TrimEnd(TrimStart(s))

\* the decimal value of the longest prefix of digits of s, given the value
\* acc of the digits already read
RECURSIVE DigitPrefix(_, _)
DigitPrefix(s, acc) ==
  IF s # <<>> /\ Head(s) \in Digits
  THEN DigitPrefix(Tail(s), 10 * acc + DigitVal(Head(s)))
  ELSE acc

\* parseInt(s): leading white space is skipped, one sign is accepted, the
\* longest prefix of digits is the value and what follows it is ignored;
\* no digit at that place gives NaN
ParseInt(s) ==
  LET t == TrimStart(s)
      neg == t # <<>> /\ Head(t) = "-"
      u == IF t # <<>> /\ Head(t) \in {"-", "+"} THEN Tail(t) ELSE t
  IN IF u = <<>> \/ Head(u) \notin Digits THEN NaN
     ELSE Num(IF neg THEN 0 - DigitPrefix(u, 0) ELSE DigitPrefix(u, 0))

(***************************************************************************)
(* The collaborators of splitPdf: pdf-lib's copyPages and JSZip's file.     *)
(* A document is the sequence of physical page indices copied into it; an   *)
(* archive is the sequence of its entries [name, pages] in insertion order. *)
(* A name is <<suffix, number>>: <<"part", 2>> is "<base>-part-2.pdf".      *)
(***************************************************************************)
\* newPdf.copyPages(pdfDoc, indices) throws unless every index is a page of
\* pdfDoc
CopyPagesOk(pageCount, indices) ==
  \A k \in 1..Len(indices) : indices[k] \in 0..(pageCount - 1)

\* folder.file(name, bytes): adds the entry, or replaces the content of the
\* entry that already has this name
ZipFile(zip, name, pagesOfDoc) ==
  IF \E k \in 1..Len(zip) : zip[k].name = name
  THEN [k \in 1..Len(zip) |->
          IF zip[k].name = name
          THEN [name |-> name, pages |-> pagesOfDoc]
          ELSE zip[k]]
  ELSE Append(zip, [name |-> name, pages |-> pagesOfDoc])

\* one round of "create, copyPages, addPage, save, folder.file"; acc.ok is
\* FALSE once copyPages has thrown
AddDocument(acc, pageCount, name, pageIndices) ==
  IF acc.ok /\ CopyPagesOk(pageCount, pageIndices)
  THEN [ok |-> TRUE, zip |-> ZipFile(acc.zip, name, pageIndices)]
  ELSE [ok |-> FALSE, zip |-> <<>>]

EmptyZip == [ok |-> TRUE, zip |-> <<>>]

\* what the promise returned by splitPdf settles to
Thrown(msg) == [kind |-> "error", docs |-> <<>>, msg |-> msg]

ZipBlob(acc) ==
  IF acc.ok THEN [kind |-> "zip", docs |-> acc.zip, msg |-> ""]
  ELSE Thrown("copyPages")

PdfBlob(pageCount, pageIndices) ==
  IF CopyPagesOk(pageCount, pageIndices)
  THEN [kind |-> "pdf",
        docs |-> <<[name |-> <<"blob", 0>>, pages |-> pageIndices]>>,
        msg |-> ""]
  ELSE Thrown("copyPages")

(***************************************************************************)
(* splitPdf(file, mode, ranges, selectedPages, sourceIndices)               *)
(***************************************************************************)
\* const availableIndices = sourceIndices || Array.from(...): an empty array
\* is truthy and is kept
AvailableIndices(sourceIndices, pageCount) ==
  IF sourceIndices.some THEN sourceIndices.val ELSE ArrayFromLength(pageCount)

\* mode 'each': for (let i = 0; i < availableIndices.length; i++)
RECURSIVE EachLoop(_, _, _, _)
EachLoop(availableIndices, pageCount, i, acc) ==
  IF i < Len(availableIndices)
  THEN EachLoop(availableIndices, pageCount, i + 1,
                AddDocument(acc, pageCount, <<"", i + 1>>,
                            <<At(availableIndices, i)>>))
  ELSE acc

\* mutant of SplitEach: the loop starts at the second view position
SplitEachFromOne(availableIndices, pageCount) ==
  ZipBlob(EachLoop(availableIndices, pageCount, 1, EmptyZip))

SplitEach(availableIndices, pageCount) ==
  ZipBlob(EachLoop(availableIndices, pageCount, 0, EmptyZip))

\* mutant of IntervalLoop: the number is used as a physical page number
RECURSIVE IntervalLoopPhysical(_, _, _, _)
IntervalLoopPhysical(availableIndices, j, end, pageIndices) ==
  IF j <= end
  THEN IntervalLoopPhysical(availableIndices, j + 1, end,
                            IF j > 0 /\ j <= Len(availableIndices)
                            THEN Append(pageIndices, j - 1)
                            ELSE pageIndices)
  ELSE pageIndices

\* for (let j = start; j <= end; j++) if (j > 0 && j <= length) push(...)
RECURSIVE IntervalLoop(_, _, _, _)
IntervalLoop(availableIndices, j, end, pageIndices) ==
  IF j <= end
  THEN IntervalLoop(availableIndices, j + 1, end,
                    IF j > 0 /\ j <= Len(availableIndices)
                    THEN Append(pageIndices, At(availableIndices, j - 1))
                    ELSE pageIndices)
  ELSE pageIndices

\* mutant of RangePageIndices: a reversed interval has its bounds swapped
RangePageIndicesSwapped(part, availableIndices) ==
  IF Includes(part, "-")
  THEN LET pieces == Split(part, "-")
           start == ParseInt(pieces[1])
           end == ParseInt(pieces[2])
       IN IF start.nan \/ end.nan THEN <<>>
          ELSE IF start.n > end.n
               THEN IntervalLoop(availableIndices, end.n, start.n, <<>>)
               ELSE IntervalLoop(availableIndices, start.n, end.n, <<>>)
  ELSE LET pageNum == ParseInt(part)
       IN IF ~pageNum.nan /\ pageNum.n > 0 /\ pageNum.n <= Len(availableIndices)
          THEN <<At(availableIndices, pageNum.n - 1)>>
          ELSE <<>>

\* the pageIndices of one token; every comparison with NaN is false
RangePageIndices(part, availableIndices) ==
  IF Includes(part, "-")
  THEN LET pieces == Split(part, "-")
           start == ParseInt(pieces[1])
           end == ParseInt(pieces[2])
       IN IF start.nan \/ end.nan THEN <<>>
          ELSE IntervalLoop(availableIndices, start.n, end.n, <<>>)
  ELSE LET pageNum == ParseInt(part)
       IN IF ~pageNum.nan /\ pageNum.n > 0 /\ pageNum.n <= Len(availableIndices)
          THEN <<At(availableIndices, pageNum.n - 1)>>
          ELSE <<>>

\* const parts = ranges.split(',').map(p => p.trim())
RangeParts(ranges) ==
  LET raw == Split(ranges, ",") IN [k \in 1..Len(raw) |-> Trim(raw[k])]

\* mutant of RangesLoop: a part is numbered by the count of parts emitted
RECURSIVE RangesLoopRenumbered(_, _, _, _, _)
RangesLoopRenumbered(parts, availableIndices, pageCount, i, acc) ==
  IF i < Len(parts)
  THEN LET pageIndices == RangePageIndices(At(parts, i), availableIndices)
       IN RangesLoopRenumbered(parts, availableIndices, pageCount, i + 1,
                     IF Len(pageIndices) > 0
                     THEN AddDocument(acc, pageCount,
                                      <<"part", Len(acc.zip) + 1>>,
                                      pageIndices)
                     ELSE acc)
  ELSE acc

\* mode 'ranges': for (let i = 0; i < parts.length; i++)
RECURSIVE RangesLoop(_, _, _, _, _)
RangesLoop(parts, availableIndices, pageCount, i, acc) ==
  IF i < Len(parts)
  THEN LET pageIndices == RangePageIndices(At(parts, i), availableIndices)
       IN RangesLoop(parts, availableIndices, pageCount, i + 1,
                     IF Len(pageIndices) > 0
                     THEN AddDocument(acc, pageCount, <<"part", i + 1>>,
                                      pageIndices)
                     ELSE acc)
  ELSE acc

SplitRanges(ranges, availableIndices, pageCount) ==
  ZipBlob(RangesLoop(RangeParts(ranges), availableIndices, pageCount, 0,
                     EmptyZip))

\* mode 'selected': for (const idx of selectedPages)
RECURSIVE SelectedLoop(_, _, _, _, _)
SelectedLoop(selectedPages, availableIndices, pageCount, k, acc) ==
  IF k < Len(selectedPages)
  THEN LET idx == At(selectedPages, k)
       IN SelectedLoop(selectedPages, availableIndices, pageCount, k + 1,
                       IF idx >= 0 /\ idx < Len(availableIndices)
                       THEN AddDocument(acc, pageCount, <<"page", idx + 1>>,
                                        <<At(availableIndices, idx)>>)
                       ELSE acc)
  ELSE acc

SplitSelected(selectedPages, availableIndices, pageCount) ==
  ZipBlob(SelectedLoop(selectedPages, availableIndices, pageCount, 0,
                       EmptyZip))

\* mutant of DeleteLoop: the excluded numbers are read as physical indices
RECURSIVE DeleteLoopByPhysical(_, _, _, _)
DeleteLoopByPhysical(selectedPages, availableIndices, i, pageIndicesToKeep) ==
  IF i < Len(availableIndices)
  THEN DeleteLoopByPhysical(selectedPages, availableIndices, i + 1,
                  IF ~Includes(selectedPages, At(availableIndices, i))
                  THEN Append(pageIndicesToKeep, At(availableIndices, i))
                  ELSE pageIndicesToKeep)
  ELSE pageIndicesToKeep

\* mode 'delete': for (let i...) if (!selectedPages.includes(i)) push(...)
RECURSIVE DeleteLoop(_, _, _, _)
DeleteLoop(selectedPages, availableIndices, i, pageIndicesToKeep) ==
  IF i < Len(availableIndices)
  THEN DeleteLoop(selectedPages, availableIndices, i + 1,
                  IF ~Includes(selectedPages, i)
                  THEN Append(pageIndicesToKeep, At(availableIndices, i))
                  ELSE pageIndicesToKeep)
  ELSE pageIndicesToKeep

SplitDelete(selectedPages, availableIndices, pageCount) ==
  PdfBlob(pageCount, DeleteLoop(selectedPages, availableIndices, 0, <<>>))

\* selectedPages.filter(idx => idx >= 0 && idx < length).map(idx => ...[idx])
IndicesToExtract(selectedPages, availableIndices) ==
  LET inRange == FilterSeq(selectedPages, 0..(Len(availableIndices) - 1))
  IN [k \in 1..Len(inRange) |-> At(availableIndices, inRange[k])]

SplitExtract(selectedPages, availableIndices, pageCount) ==
  PdfBlob(pageCount, IndicesToExtract(selectedPages, availableIndices))

\* the if / else-if chain; a string or an array that is absent or empty is
\* falsy where the chain tests it, and the chain ends in the throw
SplitPdf(pageCount, m, r, selectedPages, sourceIndices) ==
  LET availableIndices == AvailableIndices(sourceIndices, pageCount)
  IN IF m = "each"
       THEN SplitEach(availableIndices, pageCount)
     ELSE IF m = "ranges" /\ r.some /\ r.val # <<>>
       THEN SplitRanges(r.val, availableIndices, pageCount)
     ELSE IF m = "selected" /\ selectedPages.some /\ Len(selectedPages.val) > 0
       THEN SplitSelected(selectedPages.val, availableIndices, pageCount)
     ELSE IF m = "delete" /\ selectedPages.some
       THEN SplitDelete(selectedPages.val, availableIndices, pageCount)
     ELSE IF m = "extract" /\ selectedPages.some /\ Len(selectedPages.val) > 0
       THEN SplitExtract(selectedPages.val, availableIndices, pageCount)
     ELSE Thrown("invalid split mode")

(***************************************************************************)
(* State.  args and result belong to the specifications that apply one    *)
(* function to every input of a bounded set (SpecSplit, SpecPlace,          *)
(* SpecText).  The other variables are the state of App and of the panel    *)
(* it shows, and the asynchronous continuations in flight.  App mounts one  *)
(* panel at a time, so files, isProcessing and message are those of the     *)
(* mounted panel.                                                           *)
(***************************************************************************)
VARIABLES
  args,                \* the arguments of one call of the function
  result,              \* <<>> before the call, then <<what it settled to>>
  files,               \* useState<File[]>: the selected file, if any
  pdfInfo,             \* useState<PdfFile | null>
  mode,                \* useState: each | ranges | selected | delete | extract
  ranges,              \* useState(''): the range string
  selectedIds,         \* useState<string[]>: page ids in selection order
  pages,               \* useState<PageData[]>: the view
  isLoadingThumbnails, \* useState(false)
  isProcessing,        \* useState(false)
  message,             \* useState('')
  loads,               \* handleFilesSelected calls suspended at an await
  export,              \* the handleSplit call suspended at await splitPdf
  saved,               \* the saveAs call made by the last step, if any
  activeToolId,        \* App: useState('split'), the panel that is mounted
  items,               \* MergeTool: useState<SortableFileItem[]>
  watermarkType,       \* WatermarkTool: useState<'text' | 'file'>('text')
  watermarkText,       \* WatermarkTool: useState('CONFIDENTIAL')
  watermarkFile,       \* WatermarkTool: useState<File | null>(null)
  rotation,            \* RotateTool: useState(90); WatermarkTool: useState(45)
  dpi,                 \* PdfToImageTool: useState(200)
  margins,             \* CropTool: useState({top: 0, bottom: 0, left: 0, right: 0})
  orphans,             \* exports in flight whose panel has been unmounted
  currentPage,         \* WatermarkTool: useState(0)
  pageCountState,      \* WatermarkTool: useState(0), the state pageCount
  previewImage,        \* WatermarkTool: useState(''), the page it shows
  pageSize             \* WatermarkTool: useState({ width: 0, height: 0 })

splitVars == <<args, result>>

previewVars == <<currentPage, pageCountState, previewImage, pageSize>>

appVars == <<activeToolId, items, watermarkType, watermarkText, watermarkFile,
             rotation, dpi, margins, orphans, previewVars>>

toolVars == <<files, pdfInfo, mode, ranges, selectedIds, pages,
              isLoadingThumbnails, isProcessing, message, loads, export,
              saved, appVars>>

vars == <<args, result, files, pdfInfo, mode, ranges, selectedIds, pages,
          isLoadingThumbnails, isProcessing, message, loads, export, saved,
          activeToolId, items, watermarkType, watermarkText, watermarkFile,
          rotation, dpi, margins, orphans, currentPage, pageCountState,
          previewImage, pageSize>>

Modes == {"each", "ranges", "selected", "delete", "extract"}

\* the initial value of watermarkText
Confidential == <<"C", "O", "N", "F", "I", "D", "E", "N", "T", "I", "A", "L">>

\* the initial value of pageSize
NoSize ==
  [width |-> [num |-> 0, den |-> 1], height |-> [num |-> 0, den |-> 1]]

\* the initial value of margins
NoMargins == [top |-> 0, bottom |-> 0, left |-> 0, right |-> 0]

\* the state after construction: App shows SplitTool, whose useState initial
\* values these are; the variables of the other panels have the initial
\* values of their own useState
ToolInit ==
  /\ files = <<>>
  /\ pdfInfo = None
  /\ mode = "each"
  /\ ranges = <<>>
  /\ selectedIds = <<>>
  /\ pages = <<>>
  /\ isLoadingThumbnails = FALSE
  /\ isProcessing = FALSE
  /\ message = <<"">>
  /\ loads = <<>>
  /\ export = None
  /\ saved = <<>>
  /\ activeToolId = "split"
  /\ items = <<>>
  /\ watermarkType = "text"
  /\ watermarkText = Confidential
  /\ watermarkFile = None
  /\ rotation = 90
  /\ dpi = 200
  /\ margins = NoMargins
  /\ orphans = <<>>
  /\ currentPage = 0
  /\ pageCountState = 0
  /\ previewImage = None
  /\ pageSize = NoSize

(***************************************************************************)
(* SpecSplit: splitPdf as a function of its arguments.                      *)
(***************************************************************************)
\* the elements of a set of integers in ascending order
Ascending(S) ==
  [k \in 1..Cardinality(S) |->
     CHOOSE x \in S : Cardinality({y \in S : y <= x}) = k]

\* views of a document of n pages: the pages that are left, in page order
ViewsOf(n) == {Ascending(S) : S \in SUBSET (0..(n - 1))}

\* sequences over S of length 0..n
RECURSIVE SeqsUpTo(_, _)
SeqsUpTo(S, n) ==
  IF n = 0 THEN {<<>>}
  ELSE LET shorter == SeqsUpTo(S, n - 1)
       IN shorter \cup {Append(q, x) : q \in shorter, x \in S}

\* range tokens: numbers in and out of range, intervals (forward, reversed,
\* partly out of range, open-ended, leading dash), text, a number followed
\* by text, a padded number and the empty token
Tokens ==
  { <<"1">>, <<"5">>, <<"8">>, <<"1", "0">>, <<" ", "5">>, <<>>,
    <<"1", "-", "3">>, <<"3", "-", "1">>, <<"4", "-", "9">>,
    <<"0", "-", "2">>, <<"2", "-">>, <<"-", "2">>,
    <<"x">>, <<"3", "x">> }

RECURSIVE JoinTokens(_)
JoinTokens(ts) ==
  IF Len(ts) = 1 THEN ts[1]
  ELSE ts[1] \o <<",">> \o JoinTokens(Tail(ts))

RangeStrings ==
  {JoinTokens(ts) : ts \in SeqsUpTo(Tokens, MaxTokens) \ {<<>>}}

Optional(S) == {None} \cup {Some(v) : v \in S}

Input(m, r, sel, src) ==
  [pageCount |-> NPages, mode |-> m, ranges |-> r,
   selectedPages |-> sel, sourceIndices |-> src]

\* the calls of SpecSplit: every mode with the parameter it reads, present
\* or absent, on every view, present or absent
SplitInit ==
  /\ \E src \in Optional(ViewsOf(NPages)) :
       \/ args = Input("each", None, None, src)
       \/ \E r \in Optional(RangeStrings) :
            args = Input("ranges", r, None, src)
       \/ \E m \in {"selected", "delete", "extract"} :
            \E sel \in Optional(SeqsUpTo((0 - 1)..NPages, MaxSel)) :
              args = Input(m, None, sel, src)
  /\ result = <<>>
  /\ ToolInit

CallSplitPdf ==
  /\ result = <<>>
  /\ result' = <<SplitPdf(args.pageCount, args.mode, args.ranges,
                          args.selectedPages, args.sourceIndices)>>
  /\ UNCHANGED <<args, toolVars>>

SplitNext == CallSplitPdf

SpecSplit == SplitInit /\ [][SplitNext]_vars

(***************************************************************************)
(* Spec: the SplitTool component.  A handler runs to its first await in one *)
(* step; each continuation after an await is a step of its own, so user     *)
(* events and other continuations interleave with it.                       *)
(***************************************************************************)
\* the files the user can pick
FileNames == {"a.pdf", "b.pdf"}

\* pdfDoc.getPageCount(); long.pdf is picked only in SpecLong
PageCount(f) ==
  IF f = "a.pdf" THEN PagesA ELSE IF f = "long.pdf" THEN PagesLong ELSE PagesB

\* the largest page count among the files
MostPages == IF PagesA > PagesB THEN PagesA ELSE PagesB

\* Math.min(info.pageCount || 0, 50)
ThumbLimit == 50

Limit(f) == IF PageCount(f) < ThumbLimit THEN PageCount(f) ELSE ThumbLimit

\* the strings typed into the range input
UiRanges == { <<>>, <<"x">>, <<"1", "-", "2">> }

\* { id: `page-${i}-${Date.now()}`, originalIndex: i, image }; t is the value
\* Date.now() has while the loop runs, which two loops may share
PageData(i, t) == [id |-> <<i, t>>, originalIndex |-> i]

PageIds == {pages[k].id : k \in 1..Len(pages)}

RemoveAt(q, k) == SubSeq(q, 1, k - 1) \o SubSeq(q, k + 1, Len(q))

\* pages.map(p => p.originalIndex)
OriginalIndices(ps) == [k \in 1..Len(ps) |-> ps[k].originalIndex]

\* pages.filter(p => ids.includes(p.id))
PagesWithIds(ps, ids) ==
  LET Selected(p) == Includes(ids, p.id) IN SelectSeq(ps, Selected)

\* pages.filter(p => !ids.includes(p.id))
PagesWithoutIds(ps, ids) ==
  LET Left(p) == ~Includes(ids, p.id) IN SelectSeq(ps, Left)

\* prev.filter(p => p !== id)
RECURSIVE WithoutId(_, _)
WithoutId(ids, id) ==
  IF ids = <<>> THEN <<>>
  ELSE IF Head(ids) = id THEN WithoutId(Tail(ids), id)
       ELSE <<Head(ids)>> \o WithoutId(Tail(ids), id)

\* handleFilesSelected up to await getPdfInfo(file); the upload area is
\* rendered only while no file is selected
HandleFilesSelected(f) ==
  /\ files = <<>>
  /\ Len(loads) < MaxLoads
  /\ files' = <<f>>
  /\ pages' = <<>>
  /\ selectedIds' = <<>>
  /\ loads' = Append(loads, [file |-> f, at |-> "getPdfInfo"])
  /\ saved' = <<>>
  /\ UNCHANGED <<pdfInfo, mode, ranges, isLoadingThumbnails, isProcessing,
                 message, export, splitVars,
                 appVars>>

\* getPdfInfo resolved (the file was read and parsed): setPdfInfo, setMessage, setIsLoadingThumbnails(true),
\* then the first await renderPageAsImage
GetPdfInfoResolved(k) ==
  /\ k \in 1..Len(loads)
  /\ loads[k].at = "getPdfInfo"
  /\ pdfInfo' = Some(loads[k].file)
  /\ message' = <<"loaded", loads[k].file>>
  /\ isLoadingThumbnails' = TRUE
  /\ loads' = [loads EXCEPT ![k].at = "render"]
  /\ saved' = <<>>
  /\ UNCHANGED <<files, mode, ranges, selectedIds, pages, isProcessing,
                 export, splitVars,
                 appVars>>

\* getPdfInfo rejected (file.arrayBuffer() or PDFDocument.load failed): the
\* outer catch
GetPdfInfoRejected(k) ==
  /\ k \in 1..Len(loads)
  /\ loads[k].at = "getPdfInfo"
  /\ message' = <<"load error">>
  /\ isLoadingThumbnails' = FALSE
  /\ loads' = RemoveAt(loads, k)
  /\ saved' = <<>>
  /\ UNCHANGED <<files, pdfInfo, mode, ranges, selectedIds, pages,
                 isProcessing, export, splitVars,
                 appVars>>

\* the render loop ran to its end: the pages of rendered were pushed to
\* newPages (a page whose render rejected is skipped), then setPages and
\* setIsLoadingThumbnails(false)
ThumbnailsRendered(k, rendered, t) ==
  /\ k \in 1..Len(loads)
  /\ loads[k].at = "render"
  /\ rendered \subseteq 0..(Limit(loads[k].file) - 1)
  /\ LET order == Ascending(rendered)
     IN pages' = [n \in 1..Len(order) |-> PageData(order[n], t)]
  /\ isLoadingThumbnails' = FALSE
  /\ loads' = RemoveAt(loads, k)
  /\ saved' = <<>>
  /\ UNCHANGED <<files, pdfInfo, mode, ranges, selectedIds, isProcessing,
                 message, export, splitVars,
                 appVars>>

\* a click on a page of the grid, which is rendered when a file is selected
\* and thumbnails are not loading
TogglePageSelection(id) ==
  /\ files # <<>>
  /\ ~isLoadingThumbnails
  /\ id \in PageIds
  /\ selectedIds' = IF Includes(selectedIds, id)
                    THEN WithoutId(selectedIds, id)
                    ELSE Append(selectedIds, id)
  /\ saved' = <<>>
  /\ UNCHANGED <<files, pdfInfo, mode, ranges, pages, isLoadingThumbnails,
                 isProcessing, message, loads, export, splitVars,
                 appVars>>

HandleRemoveFile ==
  /\ files # <<>>
  /\ files' = <<>>
  /\ pdfInfo' = None
  /\ pages' = <<>>
  /\ selectedIds' = <<>>
  /\ message' = <<"">>
  /\ saved' = <<>>
  /\ UNCHANGED <<mode, ranges, isLoadingThumbnails, isProcessing, loads,
                 export, splitVars,
                 appVars>>

\* the button is rendered in 'delete' mode and disabled without a selection
HandleRemovePages ==
  /\ files # <<>>
  /\ mode = "delete"
  /\ Len(selectedIds) # 0
  /\ pages' = PagesWithoutIds(pages, selectedIds)
  /\ selectedIds' = <<>>
  /\ message' = <<"removed">>
  /\ saved' = <<>>
  /\ UNCHANGED <<files, pdfInfo, mode, ranges, isLoadingThumbnails,
                 isProcessing, loads, export, splitVars,
                 appVars>>

SetMode(m) ==
  /\ files # <<>>
  /\ m # mode
  /\ mode' = m
  /\ saved' = <<>>
  /\ UNCHANGED <<files, pdfInfo, ranges, selectedIds, pages,
                 isLoadingThumbnails, isProcessing, message, loads, export,
                 splitVars, appVars>>

\* the range input is rendered in 'ranges' mode
SetRanges(r) ==
  /\ files # <<>>
  /\ mode = "ranges"
  /\ r # ranges
  /\ ranges' = r
  /\ saved' = <<>>
  /\ UNCHANGED <<files, pdfInfo, mode, selectedIds, pages,
                 isLoadingThumbnails, isProcessing, message, loads, export,
                 splitVars, appVars>>

\* the disabled attribute of the button that calls handleSplit
SplitDisabled ==
  IF mode = "delete"
  THEN isProcessing \/ Len(pages) = 0
  ELSE \/ isProcessing
       \/ (mode = "ranges" /\ ranges = <<>>)
       \/ (mode \in {"selected", "extract"} /\ Len(selectedIds) = 0)

\* the setMessage at the start of handleSplit
ProgressMessage(m) ==
  IF m = "delete" THEN <<"saving">>
  ELSE IF m = "extract" THEN <<"extracting">>
  ELSE <<"splitting">>

\* mutant of SplitCall: 'each' and 'ranges' do not pass the view
SplitCallWithoutView(m, r, ps, ids) ==
  LET currentIndices == OriginalIndices(ps)
      selectedOriginalIndices == OriginalIndices(PagesWithIds(ps, ids))
  IN IF m = "delete"
       THEN [mode |-> "extract", ranges |-> None,
             selectedPages |-> Some(currentIndices), sourceIndices |-> None]
     ELSE IF m = "extract"
       THEN [mode |-> "extract", ranges |-> None,
             selectedPages |-> Some(selectedOriginalIndices),
             sourceIndices |-> None]
     ELSE IF m = "selected"
       THEN [mode |-> "selected", ranges |-> None,
             selectedPages |-> Some(selectedOriginalIndices),
             sourceIndices |-> None]
     ELSE IF m = "each"
       THEN [mode |-> "each", ranges |-> None, selectedPages |-> None,
             sourceIndices |-> None]
     ELSE [mode |-> "ranges", ranges |-> Some(r), selectedPages |-> None,
           sourceIndices |-> None]

\* the arguments of the splitPdf call chosen by handleSplit
SplitCall(m, r, ps, ids) ==
  LET currentIndices == OriginalIndices(ps)
      selectedOriginalIndices == OriginalIndices(PagesWithIds(ps, ids))
  IN IF m = "delete"
       THEN [mode |-> "extract", ranges |-> None,
             selectedPages |-> Some(currentIndices), sourceIndices |-> None]
     ELSE IF m = "extract"
       THEN [mode |-> "extract", ranges |-> None,
             selectedPages |-> Some(selectedOriginalIndices),
             sourceIndices |-> None]
     ELSE IF m = "selected"
       THEN [mode |-> "selected", ranges |-> None,
             selectedPages |-> Some(selectedOriginalIndices),
             sourceIndices |-> None]
     ELSE IF m = "each"
       THEN [mode |-> "each", ranges |-> None, selectedPages |-> None,
             sourceIndices |-> Some(currentIndices)]
     ELSE [mode |-> "ranges", ranges |-> Some(r), selectedPages |-> None,
           sourceIndices |-> Some(currentIndices)]

\* handleSplit up to await splitPdf(...)
HandleSplit ==
  /\ files # <<>>
  /\ ~SplitDisabled
  /\ isProcessing' = TRUE
  /\ message' = ProgressMessage(mode)
  /\ export' = Some([file |-> files[1], mode |-> mode,
                     currentIndices |-> OriginalIndices(pages),
                     call |-> SplitCall(mode, ranges, pages, selectedIds)])
  /\ saved' = <<>>
  /\ UNCHANGED <<files, pdfInfo, mode, ranges, selectedIds, pages,
                 isLoadingThumbnails, loads, splitVars,
                 appVars>>

\* what the awaited splitPdf call settles to when the file is read and parsed
SplitPdfOutcome(e) ==
  SplitPdf(PageCount(e.file), e.call.mode, e.call.ranges,
           e.call.selectedPages, e.call.sourceIndices)

\* saveAs(blob, name) with the handler's local currentIndices; extension and
\* suffix are computed from the mode the handler was started with
SaveAsCall(e, blob) ==
  [blob |-> blob, file |-> e.file, currentIndices |-> e.currentIndices,
   suffix |-> IF e.mode = "delete" THEN "-edited"
              ELSE IF e.mode = "extract" THEN "-extracted" ELSE "-split",
   extension |-> IF e.mode \in {"delete", "extract"} THEN "pdf" ELSE "zip"]

\* the rest of handleSplit: saveAs and the 'done' message, or the catch; then
\* finally.  readable is FALSE when file.arrayBuffer() or PDFDocument.load
\* rejects inside splitPdf
SplitPdfSettled(readable) ==
  /\ export.some
  /\ LET e == export.val
         blob == IF readable THEN SplitPdfOutcome(e) ELSE Thrown("load")
     IN IF blob.kind # "error"
        THEN /\ saved' = <<SaveAsCall(e, blob)>>
             /\ message' = <<"done">>
        ELSE /\ saved' = <<>>
             /\ message' = <<"error">>
  /\ isProcessing' = FALSE
  /\ export' = None
  /\ UNCHANGED <<files, pdfInfo, mode, ranges, selectedIds, pages,
                 isLoadingThumbnails, loads, splitVars,
                 appVars>>

Init ==
  /\ ToolInit
  /\ args = Input("each", None, None, None)
  /\ result = <<>>

Next ==
  \/ \E f \in FileNames : HandleFilesSelected(f)
  \/ \E k \in 1..MaxLoads : GetPdfInfoResolved(k)
  \/ \E k \in 1..MaxLoads : GetPdfInfoRejected(k)
  \/ \E k \in 1..MaxLoads, t \in 1..MaxStamp :
       \E rendered \in SUBSET (0..(MostPages - 1)) :
         ThumbnailsRendered(k, rendered, t)
  \/ \E i \in 0..(MostPages - 1), t \in 1..MaxStamp :
       TogglePageSelection(<<i, t>>)
  \/ HandleRemoveFile
  \/ HandleRemovePages
  \/ \E m \in Modes : SetMode(m)
  \/ \E r \in UiRanges : SetRanges(r)
  \/ HandleSplit
  \/ \E readable \in BOOLEAN : SplitPdfSettled(readable)

Spec == Init /\ [][Next]_vars

(***************************************************************************)
(* Vocabulary of the properties of splitPdf.                                *)
(***************************************************************************)
\* the view a call works on: sourceIndices, or every page when it is absent
ViewOf(a) ==
  IF a.sourceIndices.some THEN a.sourceIndices.val
  ELSE [i \in 1..a.pageCount |-> i - 1]

Called(m) == result # <<>> /\ args.mode = m

\* the pages of the archive entry with this name, <<>> when there is none
PagesOfEntry(r, name) ==
  IF \E k \in 1..Len(r.docs) : r.docs[k].name = name
  THEN r.docs[CHOOSE k \in 1..Len(r.docs) : r.docs[k].name = name].pages
  ELSE <<>>

HasEntry(r, name) == \E k \in 1..Len(r.docs) : r.docs[k].name = name

AllDigits(t) == t # <<>> /\ \A i \in 1..Len(t) : t[i] \in Digits

RECURSIVE Decimal(_)
Decimal(t) ==
  IF t = <<>> THEN 0
  ELSE 10 * Decimal(SubSeq(t, 1, Len(t) - 1)) + DigitVal(t[Len(t)])

\* t is N-M with N and M decimal numbers
IsInterval(t) ==
  \E d \in 1..Len(t) :
    /\ t[d] = "-"
    /\ AllDigits(SubSeq(t, 1, d - 1))
    /\ AllDigits(SubSeq(t, d + 1, Len(t)))

DashAt(t) == CHOOSE d \in 1..Len(t) : t[d] = "-"

IntervalStart(t) == Decimal(SubSeq(t, 1, DashAt(t) - 1))

IntervalEnd(t) == Decimal(SubSeq(t, DashAt(t) + 1, Len(t)))

\* v[p] for the 1-based positions p of lo..hi that lie in the view
ViewSlice(v, lo, hi) ==
  LET from == IF lo < 1 THEN 1 ELSE lo
      to == IF hi > Len(v) THEN Len(v) ELSE hi
  IN IF to < from THEN <<>> ELSE [k \in 1..(to - from + 1) |-> v[from + k - 1]]

CountOf(s, c) == Cardinality({i \in 1..Len(s) : s[i] = c})

RangesCalled == Called("ranges") /\ args.ranges.some /\ args.ranges.val # <<>>

\* C1: in 'each' mode a view of length N gives exactly N documents of one
\* page each; the i-th document is numbered i and holds the i-th view element
C1_EachOneDocumentPerViewPosition ==
  Called("each") =>
    LET v == ViewOf(args)
        r == result[1]
    IN /\ r.kind = "zip"
       /\ Len(r.docs) = Len(v)
       /\ \A i \in 1..Len(v) :
            r.docs[i] = [name |-> <<"", i>>, pages |-> <<v[i]>>]

C1_Witness ==
  /\ Called("each")
  /\ args.sourceIndices = Some(<<1, 3, 4>>)
  /\ result[1].docs = <<[name |-> <<"", 1>>, pages |-> <<1>>],
                        [name |-> <<"", 2>>, pages |-> <<3>>],
                        [name |-> <<"", 3>>, pages |-> <<4>>]>>

\* C2: in 'ranges' mode a number p is the 1-based view position p: the token
\* p gives <<view[p]>> when 1 <= p <= size and nothing otherwise, the token
\* N-M gives view[p] for the p of N..M inside 1..size, ascending
C2_RangeNumbersAreViewPositions ==
  RangesCalled =>
    LET v == ViewOf(args)
        r == result[1]
        parts == RangeParts(args.ranges.val)
    IN /\ r.kind = "zip"
       /\ \A k \in 1..Len(parts) :
            /\ AllDigits(parts[k]) =>
                 PagesOfEntry(r, <<"part", k>>)
                   = ViewSlice(v, Decimal(parts[k]), Decimal(parts[k]))
            /\ IsInterval(parts[k]) =>
                 PagesOfEntry(r, <<"part", k>>)
                   = ViewSlice(v, IntervalStart(parts[k]),
                               IntervalEnd(parts[k]))

C2_Witness ==
  /\ RangesCalled
  /\ args.ranges.val = <<"1", "-", "3", ",", " ", "5">>
  /\ args.sourceIndices = Some(<<1, 2, 3, 4, 5>>)
  /\ result[1].docs = <<[name |-> <<"part", 1>>, pages |-> <<1, 2, 3>>],
                        [name |-> <<"part", 2>>, pages |-> <<5>>]>>

\* C3: in 'ranges' mode there is one token per comma-separated piece; the
\* archive has an entry part-k exactly for the tokens k that resolve to a
\* page, in token order, so an empty token leaves a gap in the numbering
C3_OnePartPerTokenNumberedByPosition ==
  RangesCalled =>
    LET v == ViewOf(args)
        r == result[1]
        parts == RangeParts(args.ranges.val)
    IN /\ r.kind = "zip"
       /\ Len(parts) = CountOf(args.ranges.val, ",") + 1
       /\ \A k \in 1..Len(parts) :
            HasEntry(r, <<"part", k>>) <=> RangePageIndices(parts[k], v) # <<>>
       /\ \A a \in 1..Len(r.docs) :
            /\ r.docs[a].name[1] = "part"
            /\ r.docs[a].name[2] \in 1..Len(parts)
            /\ r.docs[a].pages # <<>>
            /\ \A b \in (a + 1)..Len(r.docs) :
                 r.docs[a].name[2] < r.docs[b].name[2]

C3_Witness ==
  /\ RangesCalled
  /\ args.ranges.val = <<"x", ",", "1">>
  /\ args.sourceIndices = Some(<<2, 4>>)
  /\ result[1].docs = <<[name |-> <<"part", 2>>, pages |-> <<2>>]>>

\* the malformed tokens of C4
IsReversed(t) == IsInterval(t) /\ IntervalStart(t) > IntervalEnd(t)

IsNonNumeric(t) == t # <<>> /\ \A i \in 1..Len(t) : t[i] \notin Digits

IsOpenEnded(t) ==
  Len(t) > 1 /\ t[Len(t)] = "-" /\ AllDigits(SubSeq(t, 1, Len(t) - 1))

IsLeadingDash(t) == Len(t) > 1 /\ t[1] = "-" /\ AllDigits(Tail(t))

IsOutOfRange(t, v) == AllDigits(t) /\ Decimal(t) \notin 1..Len(v)

IsMalformed(t, v) ==
  \/ IsReversed(t)
  \/ IsNonNumeric(t)
  \/ IsOpenEnded(t)
  \/ IsLeadingDash(t)
  \/ IsOutOfRange(t, v)

Elems(q) == {q[i] : i \in 1..Len(q)}

\* C5: in 'delete' mode the result is one document whose pages are the view
\* elements at the positions that are not excluded, in ascending position,
\* whatever the order or repetition of the excluded positions
C5_DeleteKeepsComplementAscending ==
  (Called("delete") /\ args.selectedPages.some) =>
    LET v == ViewOf(args)
        r == result[1]
        kept == Ascending({i \in 0..(Len(v) - 1) :
                             i \notin Elems(args.selectedPages.val)})
    IN /\ r.kind = "pdf"
       /\ Len(r.docs) = 1
       /\ r.docs[1].pages = [k \in 1..Len(kept) |-> v[kept[k] + 1]]

C5_Witness ==
  /\ Called("delete")
  /\ args.selectedPages = Some(<<3, 1>>)
  /\ args.sourceIndices = Some(<<0, 2, 3, 4, 5>>)
  /\ result[1].docs = <<[name |-> <<"blob", 0>>, pages |-> <<0, 3, 5>>]>>

\* the in-range positions of a supplied list, in the supplied order
InRange(sel, v) == FilterSeq(sel, 0..(Len(v) - 1))

\* C6: for a supplied list with at least one position, 'extract' gives one
\* document with view[p] for each in-range position p in the supplied order,
\* and 'selected' gives one single-page document per in-range position in the
\* supplied order, repeated positions included
C6_SelectionOrderPreserved ==
  /\ ( /\ Called("extract")
       /\ args.selectedPages.some
       /\ args.selectedPages.val # <<>> ) =>
       LET v == ViewOf(args)
           r == result[1]
           ps == InRange(args.selectedPages.val, v)
       IN /\ r.kind = "pdf"
          /\ r.docs[1].pages = [k \in 1..Len(ps) |-> v[ps[k] + 1]]
  /\ ( /\ Called("selected")
       /\ args.selectedPages.some
       /\ args.selectedPages.val # <<>> ) =>
       LET v == ViewOf(args)
           r == result[1]
           ps == InRange(args.selectedPages.val, v)
       IN /\ r.kind = "zip"
          /\ Len(r.docs) = Len(ps)
          /\ \A k \in 1..Len(ps) : r.docs[k].pages = <<v[ps[k] + 1]>>

\* C7: for a loadable document and each of the five modes splitPdf returns a
\* result for every parameter value; it never throws
C7_SplitPdfNeverThrows ==
  (result # <<>> /\ args.mode \in Modes) => result[1].kind # "error"

(***************************************************************************)
(* Properties of SplitTool.                                                 *)
(***************************************************************************)
\* a token that is a number or an interval of numbers
IsUsableToken(t) == AllDigits(t) \/ IsInterval(t)

NoUsableToken(r) ==
  \A k \in 1..Len(RangeParts(r)) : ~IsUsableToken(RangeParts(r)[k])

\* C8: handleSplit does not call splitPdf when no file is selected, when the
\* mode is 'ranges' and the range string is empty or has no usable token, or
\* when the mode is 'selected' or 'extract' and no page is selected
C8_InputValidatedBeforeSplitPdf ==
  [][(~export.some /\ export'.some) =>
       /\ files # <<>>
       /\ mode = "ranges" => (ranges # <<>> /\ ~NoUsableToken(ranges))
       /\ mode \in {"selected", "extract"} => selectedIds # <<>>]_vars

\* the physical page indices copied into the documents of a saved blob
CopiedPages(blob) ==
  UNION {Elems(blob.docs[k].pages) : k \in 1..Len(blob.docs)}

\* C9: every physical page index copied into a document that is saved is the
\* originalIndex of a page that was in the view when handleSplit started
C9_OutputPagesComeFromView ==
  saved # <<>> =>
    CopiedPages(saved[1].blob) \subseteq Elems(saved[1].currentIndices)

C9_Witness ==
  /\ saved # <<>>
  /\ saved[1].file = "a.pdf"
  /\ saved[1].currentIndices = <<1>>
  /\ saved[1].blob.docs = <<[name |-> <<"", 1>>, pages |-> <<1>>]>>

\* C10: the view has no duplicate originalIndex and every originalIndex is a
\* page of the currently selected document
C10_ViewIndicesValid ==
  /\ \A k, l \in 1..Len(pages) :
       pages[k].originalIndex = pages[l].originalIndex => k = l
  /\ files # <<>> =>
       \A k \in 1..Len(pages) :
         pages[k].originalIndex \in 0..(PageCount(files[1]) - 1)

(***************************************************************************)
(* addWatermark, text branch: the draw origin of the text on one page.      *)
(* A JavaScript number is modelled as an exact rational [num, den] in       *)
(* lowest terms with den > 0; the rounding of IEEE doubles is not modelled. *)
(***************************************************************************)
RECURSIVE Gcd(_, _)
Gcd(a, b) == IF b = 0 THEN a ELSE Gcd(b, a % b)

Abs(n) == IF n < 0 THEN 0 - n ELSE n

Rat(n, d) ==
  LET sn == IF d < 0 THEN 0 - n ELSE n
      sd == Abs(d)
      g == Gcd(Abs(sn), sd)
  IN  [num |-> sn \div g, den |-> sd \div g]

Whole(n) == Rat(n, 1)

Plus(a, b) == Rat(a.num * b.den + b.num * a.den, a.den * b.den)

Minus(a, b) == Rat(a.num * b.den - b.num * a.den, a.den * b.den)

Times(a, b) == Rat(a.num * b.num, a.den * b.den)

Half(a) == Rat(a.num, 2 * a.den)

\* the rotation angles of the model, in degrees: the quarter turns and the
\* angles of the 3-4-5 triangle, whose sine and cosine are rational
\* ("36.87" stands for atan(3/4), "53.13" for atan(4/3), and so on)
Rotations ==
  {"0", "90", "180", "270", "360", "36.87", "53.13", "126.87", "216.87",
   "323.13"}

\* Math.cos((rotationAngle * Math.PI) / 180)
Cos(rotationAngle) ==
  CASE rotationAngle \in {"0", "360"} -> Whole(1)
    [] rotationAngle \in {"90", "270"} -> Whole(0)
    [] rotationAngle = "180" -> Whole(0 - 1)
    [] rotationAngle \in {"36.87", "323.13"} -> Rat(4, 5)
    [] rotationAngle = "53.13" -> Rat(3, 5)
    [] rotationAngle = "126.87" -> Rat(0 - 3, 5)
    [] rotationAngle = "216.87" -> Rat(0 - 4, 5)

\* Math.sin((rotationAngle * Math.PI) / 180)
Sin(rotationAngle) ==
  CASE rotationAngle \in {"0", "180", "360"} -> Whole(0)
    [] rotationAngle = "90" -> Whole(1)
    [] rotationAngle = "270" -> Whole(0 - 1)
    [] rotationAngle = "36.87" -> Rat(3, 5)
    [] rotationAngle \in {"53.13", "126.87"} -> Rat(4, 5)
    [] rotationAngle \in {"216.87", "323.13"} -> Rat(0 - 3, 5)

\* mutant of Place: the vertical fraction is not inverted
PlaceFromBottom(width, height, xRatio, yRatio, rotationAngle, textWidth, textHeight) ==
  LET centerX == Times(width, xRatio)
      centerY == Times(height, yRatio)
      cos == Cos(rotationAngle)
      sin == Sin(rotationAngle)
      vX == Half(textWidth)
      vY == Half(textHeight)
      rotatedVX == Minus(Times(vX, cos), Times(vY, sin))
      rotatedVY == Plus(Times(vX, sin), Times(vY, cos))
  IN  [x |-> Minus(centerX, rotatedVX), y |-> Minus(centerY, rotatedVY)]

\* mutant of Place: the half-extent vector is rotated clockwise
PlaceClockwise(width, height, xRatio, yRatio, rotationAngle, textWidth, textHeight) ==
  LET centerX == Times(width, xRatio)
      centerY == Times(height, Minus(Whole(1), yRatio))
      cos == Cos(rotationAngle)
      sin == Sin(rotationAngle)
      vX == Half(textWidth)
      vY == Half(textHeight)
      rotatedVX == Plus(Times(vX, cos), Times(vY, sin))
      rotatedVY == Minus(Times(vY, cos), Times(vX, sin))
  IN  [x |-> Minus(centerX, rotatedVX), y |-> Minus(centerY, rotatedVY)]

\* lines 324-341: drawX and drawY of the text on a page of the given size
Place(width, height, xRatio, yRatio, rotationAngle, textWidth, textHeight) ==
  LET centerX == Times(width, xRatio)
      centerY == Times(height, Minus(Whole(1), yRatio))
      cos == Cos(rotationAngle)
      sin == Sin(rotationAngle)
      vX == Half(textWidth)
      vY == Half(textHeight)
      rotatedVX == Minus(Times(vX, cos), Times(vY, sin))
      rotatedVY == Plus(Times(vX, sin), Times(vY, cos))
      drawX == Minus(centerX, rotatedVX)
      drawY == Minus(centerY, rotatedVY)
  IN  [x |-> drawX, y |-> drawY]

(***************************************************************************)
(* SpecPlace: the draw origin as a function of page size, anchor, rotation  *)
(* and text box.  args and result hold the inputs and the origin.           *)
(***************************************************************************)
\* the anchor fractions are the multiples of 1/AnchorDen in [0, 1]
AnchorDen == 4

\* position.x and position.y: clamped to [0, 1] by handleMouseMove
Anchors == {Rat(k, AnchorDen) : k \in 0..AnchorDen} \cup {Rat(1, 2)}

\* page.getSize(): the sizes of the model's pages
PageWidths == {Whole(600), Whole(595)}

PageHeights == {Whole(800), Whole(842)}

\* font.widthOfTextAtSize and font.heightAtSize: the results of the model
TextWidths == {Whole(0), Whole(100), Rat(667, 4)}

TextHeights == {Whole(0), Whole(20), Rat(289, 5)}

PlaceInit ==
  /\ \E w \in PageWidths, h \in PageHeights, x \in Anchors, y \in Anchors,
        rot \in Rotations, tw \in TextWidths, th \in TextHeights :
       args = [width |-> w, height |-> h, x |-> x, y |-> y,
               rotation |-> rot, textWidth |-> tw, textHeight |-> th]
  /\ result = <<>>
  /\ ToolInit

CallPlace ==
  /\ result = <<>>
  /\ result' = <<Place(args.width, args.height, args.x, args.y,
                       args.rotation, args.textWidth, args.textHeight)>>
  /\ UNCHANGED <<args, toolVars>>

PlaceNext == CallPlace

SpecPlace == PlaceInit /\ [][PlaceNext]_vars

\* the anchor point in page coordinates: the vertical fraction is measured
\* from the top, the page's origin is at the bottom left
AnchorPoint(a) ==
  [x |-> Times(a.width, a.x),
   y |-> Minus(a.height, Times(a.height, a.y))]

\* the vector v turned counterclockwise by the angle
RotateCcw(v, angle) ==
  [x |-> Minus(Times(v.x, Cos(angle)), Times(v.y, Sin(angle))),
   y |-> Plus(Times(v.x, Sin(angle)), Times(v.y, Cos(angle)))]

HalfExtent(a) == [x |-> Half(a.textWidth), y |-> Half(a.textHeight)]

SpecExample ==
  [width |-> Whole(600), height |-> Whole(800), x |-> Rat(1, 2),
   y |-> Rat(1, 2), rotation |-> "0", textWidth |-> Whole(100),
   textHeight |-> Whole(20)]

\* C11: the draw origin is the anchor point minus the half-extent vector
\* rotated counterclockwise by the rotation angle; for the 600 x 800 page
\* with anchor (0.5, 0.5), no rotation and a 100 x 20 text box it is
\* (250, 390); for an empty text box it is the anchor point itself.
C11_OriginIsAnchorMinusRotatedHalfExtent ==
  result # <<>> =>
    LET rv == RotateCcw(HalfExtent(args), args.rotation)
        c == AnchorPoint(args)
    IN  /\ result[1] = [x |-> Minus(c.x, rv.x), y |-> Minus(c.y, rv.y)]
        /\ args = SpecExample => result[1] = [x |-> Whole(250), y |-> Whole(390)]
        /\ (args.textWidth = Whole(0) /\ args.textHeight = Whole(0)) =>
             result[1] = c

C11_Witness ==
  /\ result # <<>>
  /\ args = SpecExample
  /\ result[1] = [x |-> Whole(250), y |-> Whole(390)]

\* where the centre of the text box lands when the text is drawn at the
\* origin and turned about the origin by the angle
VisualCentre(origin, a) ==
  LET rv == RotateCcw(HalfExtent(a), a.rotation)
  IN  [x |-> Plus(origin.x, rv.x), y |-> Plus(origin.y, rv.y)]

\* C12: for every anchor, page size, text box and rotation, the centre of
\* the text drawn at the returned origin and rotated about it by the same
\* angle is the anchor point (pageWidth * x, pageHeight * (1 - y)).
C12_PlacementRoundTrips ==
  result # <<>> => VisualCentre(result[1], args) = AnchorPoint(args)

C12_Witness ==
  /\ result # <<>>
  /\ args.rotation = "126.87"
  /\ args.textWidth = Rat(667, 4)
  /\ args.textHeight = Rat(289, 5)
  /\ args.x = Rat(1, 4)
  /\ args.y = Whole(1)
  /\ VisualCentre(result[1], args) = AnchorPoint(args)
  /\ result[1] # AnchorPoint(args)

(***************************************************************************)
(* addWatermark, text branch: the placeholders of the watermark text.       *)
(***************************************************************************)
\* n.toString() for an integer n >= 0
RECURSIVE NumberToString(_)
NumberToString(n) ==
  LET digit == CHOOSE c \in Digits : DigitVal(c) = n % 10
  IN  IF n < 10 THEN <<digit>> ELSE Append(NumberToString(n \div 10), digit)

\* s.padStart(targetLength, '0'): s itself when it is long enough
PadStart(s, targetLength) ==
  IF Len(s) >= targetLength THEN s
  ELSE [k \in 1..(targetLength - Len(s)) |-> "0"] \o s

StartsWith(s, pat) == Len(s) >= Len(pat) /\ SubSeq(s, 1, Len(pat)) = pat

Drop(s, n) == SubSeq(s, n + 1, Len(s))

\* s.replace(/pat/g, rep) for a pattern without metacharacters: the matches
\* are found left to right in s, and the scan resumes after each match
RECURSIVE ReplaceAll(_, _, _)
ReplaceAll(s, pat, rep) ==
  IF s = <<>> THEN <<>>
  ELSE IF StartsWith(s, pat)
       THEN rep \o ReplaceAll(Drop(s, Len(pat)), pat, rep)
       ELSE <<Head(s)>> \o ReplaceAll(Tail(s), pat, rep)

PagePlaceholder == <<"{", "p", "a", "g", "e", "}">>

TotalPlaceholder == <<"{", "t", "o", "t", "a", "l", "}">>

PaddedPrefix == <<"{", "p", "a", "g", "e", ":">>

\* the longest run of digits at the start of s: the greedy \d+
RECURSIVE DigitRun(_)
DigitRun(s) ==
  IF s # <<>> /\ Head(s) \in Digits
  THEN <<Head(s)>> \o DigitRun(Tail(s))
  ELSE <<>>

\* whether /{page:(\d+)}/ matches at the start of s
PaddedMatches(s) ==
  /\ StartsWith(s, PaddedPrefix)
  /\ LET width == DigitRun(Drop(s, Len(PaddedPrefix)))
         rest == Drop(s, Len(PaddedPrefix) + Len(width))
     IN  width # <<>> /\ rest # <<>> /\ Head(rest) = "}"

\* the capture group of the match at the start of s
PaddedWidth(s) == DigitRun(Drop(s, Len(PaddedPrefix)))

\* line 318: currentText.replace(/{page:(\d+)}/g, (_, width) =>
\*   (idx + 1).toString().padStart(parseInt(width), '0'))
RECURSIVE ReplacePadded(_, _)
ReplacePadded(s, idx) ==
  IF s = <<>> THEN <<>>
  ELSE IF PaddedMatches(s)
       THEN LET width == PaddedWidth(s)
            IN  PadStart(NumberToString(idx + 1), ParseInt(width).n)
                  \o ReplacePadded(
                       Drop(s, Len(PaddedPrefix) + Len(width) + 1), idx)
       ELSE <<Head(s)>> \o ReplacePadded(Tail(s), idx)

\* lines 310-318: the text drawn on the page with index idx of pagesLength
CurrentText(text, idx, pagesLength) ==
  LET afterPage == ReplaceAll(text, PagePlaceholder, NumberToString(idx + 1))
      afterTotal == ReplaceAll(afterPage, TotalPlaceholder,
                               NumberToString(pagesLength))
  IN  ReplacePadded(afterTotal, idx)

(***************************************************************************)
(* SpecText: the placeholders as a function of the text and the page.       *)
(* args and result hold the inputs and the text that is drawn.              *)
(***************************************************************************)
\* pieces a watermark text of the model is made of
MaxChunks == 4

Chunks ==
  { PagePlaceholder, TotalPlaceholder, PaddedPrefix, <<"}">>, <<"0">>,
    <<"3">>, <<"P", "a", "g", "e", " ">>, <<" ", "o", "f", " ">> }

RECURSIVE Concat(_)
Concat(cs) == IF cs = <<>> THEN <<>> ELSE Head(cs) \o Concat(Tail(cs))

Texts == {Concat(cs) : cs \in SeqsUpTo(Chunks, MaxChunks)}

\* pages.length and the indices of the pages the text is drawn on
PageTotals == {1, 10, 12}

PageIndices(total) == {0, 2, 11} \cap 0..(total - 1)

TextInit ==
  /\ \E t \in Texts, total \in PageTotals :
       \E idx \in PageIndices(total) :
         args = [text |-> t, idx |-> idx, total |-> total]
  /\ result = <<>>
  /\ ToolInit

CallCurrentText ==
  /\ result = <<>>
  /\ result' = <<CurrentText(args.text, args.idx, args.total)>>
  /\ UNCHANGED <<args, toolVars>>

TextNext == CallCurrentText

SpecText == TextInit /\ [][TextNext]_vars

\* the value a placeholder at the start of s stands for, and its length
PlaceholderAt(s, idx, total) ==
  IF StartsWith(s, PagePlaceholder)
  THEN [len |-> Len(PagePlaceholder), val |-> NumberToString(idx + 1)]
  ELSE IF StartsWith(s, TotalPlaceholder)
  THEN [len |-> Len(TotalPlaceholder), val |-> NumberToString(total)]
  ELSE IF PaddedMatches(s)
  THEN LET nn == PaddedWidth(s)
           page == NumberToString(idx + 1)
           zeros == [k \in 1..(Decimal(nn) - Len(page)) |-> "0"]
       IN  [len |-> Len(PaddedPrefix) + Len(nn) + 1, val |-> zeros \o page]
  ELSE [len |-> 0, val |-> <<>>]

\* every placeholder of s substituted in one pass over s
RECURSIVE Substituted(_, _, _)
Substituted(s, idx, total) ==
  IF s = <<>> THEN <<>>
  ELSE LET p == PlaceholderAt(s, idx, total)
       IN  IF p.len > 0
           THEN p.val \o Substituted(Drop(s, p.len), idx, total)
           ELSE <<Head(s)>> \o Substituted(Tail(s), idx, total)

HasPlaceholder(s) ==
  \E k \in 1..Len(s) : PlaceholderAt(Drop(s, k - 1), 0, 1).len > 0

PageOfTotalText ==
  <<"P", "a", "g", "e", " ">> \o PagePlaceholder \o <<" ", "o", "f", " ">>
    \o TotalPlaceholder

\* C13: on page index i of T pages every {page} of the text becomes the
\* decimal of i+1, every {total} the decimal of T and every {page:NN} the
\* page number left-padded with zeros to width NN and never truncated;
\* "Page {page} of {total}" on page index 2 of 10 gives "Page 3 of 10",
\* "{page:03}" gives "003", and a text without placeholders is unchanged.
C13_PlaceholdersReplaced ==
  result # <<>> =>
    /\ result[1] = Substituted(args.text, args.idx, args.total)
    /\ ~HasPlaceholder(args.text) => result[1] = args.text
    /\ (args.idx = 2 /\ args.total = 10) =>
         /\ args.text = PageOfTotalText =>
              result[1] = <<"P", "a", "g", "e", " ", "3", " ", "o", "f", " ",
                            "1", "0">>
         /\ args.text = PaddedPrefix \o <<"0", "3", "}">> =>
              result[1] = <<"0", "0", "3">>

\* C14: the three replacements made one after the other give the text that
\* substituting every placeholder of the original text in one pass gives: no
\* digit put in by an earlier replacement is part of a later match.
C14_NoRecursiveExpansion ==
  result # <<>> =>
    result[1] = Substituted(args.text, args.idx, args.total)

(***************************************************************************)
(* App and the panels other than SplitTool.  App renders the component of   *)
(* the active tool only: choosing another tool unmounts the panel shown and *)
(* mounts the other one with its initial state.  A continuation of an       *)
(* unmounted panel still runs, but its setState calls have no effect; of    *)
(* these only a pending export is kept (orphans), since its saveAs call is  *)
(* still made.  An orphan records the tool only, not what it will save.     *)
(*                                                                          *)
(* Not modelled: the previewImage of RotateTool, CropTool and                *)
(* PdfToImageTool, and position and textOptions of WatermarkTool, which no  *)
(* action of the model reads.                                               *)
(***************************************************************************)
\* exports of unmounted panels that may be pending at the same time
MaxOrphans == 1
\* items in the list of MergeTool
MaxItems == 2

ToolIds == {"split", "merge", "rotate", "crop", "watermark", "image"}

\* the panels with one file: RotateTool, CropTool, WatermarkTool and
\* PdfToImageTool
SingleFilePanels == {"rotate", "crop", "watermark", "image"}

\* the unchanged SplitTool-only state
splitOnlyVars == <<mode, ranges, selectedIds, pages, isLoadingThumbnails>>

watermarkVars == <<watermarkType, watermarkText, watermarkFile>>

\* page.getSize() of every page of the model's documents
PageSize == [width |-> 600, height |-> 800]

\* rotatePdf: every page gets its rotation (0 in the model's files) + angle
RotatePdf(file, angle) ==
  [kind |-> "pdf",
   pages |-> [i \in 1..PageCount(file) |->
                [file |-> file, index |-> i - 1, rotation |-> 0 + angle]]]

\* cropPdf: every page gets the crop box (left, bottom, width - left -
\* right, height - top - bottom)
CropPdf(file, m) ==
  [kind |-> "pdf",
   pages |-> [i \in 1..PageCount(file) |->
                [file |-> file, index |-> i - 1,
                 cropBox |-> [x |-> m.left, y |-> m.bottom,
                              width |-> PageSize.width - m.left - m.right,
                              height |-> PageSize.height - m.top - m.bottom]]]]

\* a merge that puts the last file first
RECURSIVE MergePdfsLastFirst(_)
MergePdfsLastFirst(fs) ==
  IF fs = <<>> THEN [kind |-> "pdf", pages |-> <<>>]
  ELSE [kind |-> "pdf",
        pages |-> MergePdfsLastFirst(Tail(fs)).pages
                  \o [i \in 1..PageCount(Head(fs)) |->
                        [file |-> Head(fs), index |-> i - 1]]]

\* mergePdfs: the pages of every file, files in the order given
RECURSIVE MergePdfs(_)
MergePdfs(fs) ==
  IF fs = <<>> THEN [kind |-> "pdf", pages |-> <<>>]
  ELSE [kind |-> "pdf",
        pages |-> [i \in 1..PageCount(Head(fs)) |->
                     [file |-> Head(fs), index |-> i - 1]]
                  \o MergePdfs(Tail(fs)).pages]

\* convertPdfToImages when every getPage and render resolved: one entry
\* '<base>-<i>.png' per page i (1-based), except the pages for which
\* getContext('2d') or toBlob gave null, which are passed over
ConvertPdfToImages(file, scale, skipped) ==
  [kind |-> "zip",
   docs |-> [n \in 1..Len(Ascending((1..PageCount(file)) \ skipped)) |->
               [name |-> Ascending((1..PageCount(file)) \ skipped)[n],
                scale |-> scale]]]

\* an export handler that ends without its finally
ExportResolvedWithoutFinally(call) ==
  /\ saved' = <<call>>
  /\ message' = <<"done">>
  /\ isProcessing' = isProcessing
  /\ export' = None

\* the end of an export handler of the mounted panel: saveAs and the 'done'
\* message, then finally
ExportResolved(call) ==
  /\ saved' = <<call>>
  /\ message' = <<"done">>
  /\ isProcessing' = FALSE
  /\ export' = None

\* a catch that reports the failed export as done
ExportRejectedAsDone(failureMessage) ==
  /\ saved' = <<>>
  /\ message' = <<"done">>
  /\ isProcessing' = FALSE
  /\ export' = None

\* the catch of an export handler of the mounted panel, then finally
ExportRejected(failureMessage) ==
  /\ saved' = <<>>
  /\ message' = failureMessage
  /\ isProcessing' = FALSE
  /\ export' = None

\* setActiveToolId(id) for a tool other than the active one: the panel shown
\* is unmounted and the component of id is mounted
SetActiveToolId(id) ==
  /\ id \in ToolIds
  /\ id # activeToolId
  /\ export.some => Len(orphans) < MaxOrphans
  /\ activeToolId' = id
  /\ orphans' = IF export.some
                THEN Append(orphans, [tool |-> activeToolId])
                ELSE orphans
  /\ files' = <<>>
  /\ pdfInfo' = None
  /\ mode' = "each"
  /\ ranges' = <<>>
  /\ selectedIds' = <<>>
  /\ pages' = <<>>
  /\ isLoadingThumbnails' = FALSE
  /\ isProcessing' = FALSE
  /\ message' = <<"">>
  /\ loads' = <<>>
  /\ export' = None
  /\ saved' = <<>>
  /\ items' = <<>>
  /\ watermarkType' = "text"
  /\ watermarkText' = Confidential
  /\ watermarkFile' = None
  /\ rotation' = IF id = "watermark" THEN 45 ELSE 90
  /\ dpi' = 200
  /\ margins' = NoMargins
  /\ currentPage' = 0
  /\ pageCountState' = 0
  /\ previewImage' = None
  /\ pageSize' = NoSize
  /\ UNCHANGED splitVars

\* the export of an unmounted panel settles: saveAs is called when the
\* library call resolved; setMessage and setIsProcessing have no effect
OrphanSettled(k, resolved) ==
  /\ k \in 1..Len(orphans)
  /\ orphans' = RemoveAt(orphans, k)
  /\ saved' = IF resolved
              THEN <<[tool |-> orphans[k].tool, orphan |-> TRUE]>>
              ELSE <<>>
  /\ UNCHANGED <<files, pdfInfo, isProcessing, message, loads, export,
                 splitOnlyVars, activeToolId, items, watermarkVars, rotation,
                 dpi, margins, splitVars, previewVars>>

(***************************************************************************)
(* RotateTool, CropTool, WatermarkTool and PdfToImageTool: the file.        *)
(***************************************************************************)
\* handleFilesSelected up to its first await; the upload area is rendered
\* only while no file is selected.  CropTool and WatermarkTool await
\* getPdfInfo; the other two await a preview only.  WatermarkTool also
\* calls setCurrentPage(0)
PanelFilesSelected(f) ==
  /\ activeToolId \in SingleFilePanels
  /\ files = <<>>
  /\ files' = <<f>>
  /\ message' = IF activeToolId = "crop" THEN message ELSE <<"">>
  /\ margins' = NoMargins
  /\ IF activeToolId \in {"crop", "watermark"}
     THEN /\ Len(loads) < MaxLoads
          /\ loads' = Append(loads, [file |-> f, at |-> "info", page |-> 0])
     ELSE loads' = loads
  /\ currentPage' = 0
  /\ saved' = <<>>
  /\ UNCHANGED <<pdfInfo, isProcessing, export, splitOnlyVars, activeToolId,
                 items, watermarkVars, rotation, dpi, orphans, splitVars,
                 pageCountState, previewImage, pageSize>>

\* getPdfInfo resolved.  CropTool: setPdfInfo, setMessage(''), then await
\* renderPageAsImage.  WatermarkTool: setPageCount(info.pageCount || 0),
\* then await loadPagePreview(file, 0)
PanelInfoResolved(k) ==
  /\ activeToolId \in {"crop", "watermark"}
  /\ k \in 1..Len(loads)
  /\ loads[k].at = "info"
  /\ IF activeToolId = "crop"
     THEN /\ pdfInfo' = Some(loads[k].file)
          /\ message' = <<"">>
          /\ UNCHANGED pageCountState
     ELSE /\ pageCountState' = PageCount(loads[k].file)
          /\ UNCHANGED <<pdfInfo, message>>
  /\ loads' = [loads EXCEPT ![k].at = "preview"]
  /\ saved' = <<>>
  /\ UNCHANGED <<files, isProcessing, export, splitOnlyVars, activeToolId,
                 items, watermarkVars, rotation, dpi, margins, orphans,
                 splitVars, currentPage, previewImage, pageSize>>

\* getPdfInfo rejected: the catch of handleFilesSelected
PanelInfoRejected(k) ==
  /\ activeToolId \in {"crop", "watermark"}
  /\ k \in 1..Len(loads)
  /\ loads[k].at = "info"
  /\ message' = <<"load error">>
  /\ loads' = RemoveAt(loads, k)
  /\ saved' = <<>>
  /\ UNCHANGED <<files, pdfInfo, isProcessing, export, splitOnlyVars,
                 activeToolId, items, watermarkVars, rotation, dpi, margins,
                 orphans, splitVars, previewVars>>

\* the scale of loadPagePreview: 300 / 72
PreviewScale == [num |-> 300, den |-> 72]

\* what renderPageAsImage resolves to: the image of the page and the width
\* and height of its viewport at the scale
RenderPageAsImage(file, pageIndex, scale) ==
  [image |-> [file |-> file, page |-> pageIndex],
   width |-> [num |-> PageSize.width * scale.num, den |-> scale.den],
   height |-> [num |-> PageSize.height * scale.num, den |-> scale.den]]

\* renderPageAsImage settled; it rejects when the file has no such page.
\* CropTool: a rejection reaches the catch of handleFilesSelected.
\* WatermarkTool, loadPagePreview: setPreviewImage and setPageSize; a
\* rejection is caught by loadPagePreview itself
PanelPreviewSettled(k, resolved) ==
  /\ activeToolId \in {"crop", "watermark"}
  /\ k \in 1..Len(loads)
  /\ loads[k].at = "preview"
  /\ resolved => loads[k].page < PageCount(loads[k].file)
  /\ IF activeToolId = "crop"
     THEN /\ message' = IF resolved THEN message ELSE <<"load error">>
          /\ UNCHANGED <<previewImage, pageSize>>
     ELSE /\ LET r == RenderPageAsImage(loads[k].file, loads[k].page,
                                        PreviewScale)
             IN  IF resolved
                 THEN /\ previewImage' = Some(r.image)
                      /\ pageSize' = [width |-> r.width, height |-> r.height]
                 ELSE UNCHANGED <<previewImage, pageSize>>
          /\ UNCHANGED message
  /\ loads' = RemoveAt(loads, k)
  /\ saved' = <<>>
  /\ UNCHANGED <<files, pdfInfo, isProcessing, export, splitOnlyVars,
                 activeToolId, items, watermarkVars, rotation, dpi, margins,
                 orphans, splitVars, currentPage, pageCountState>>

\* handleRemoveFile of the four panels; WatermarkTool also calls
\* setPreviewImage(''), setPageCount(0) and setCurrentPage(0)
PanelRemoveFile ==
  /\ activeToolId \in SingleFilePanels
  /\ files # <<>>
  /\ files' = <<>>
  /\ message' = <<"">>
  /\ pdfInfo' = None
  /\ margins' = NoMargins
  /\ previewImage' = None
  /\ pageCountState' = 0
  /\ currentPage' = 0
  /\ saved' = <<>>
  /\ UNCHANGED <<isProcessing, loads, export, splitOnlyVars, activeToolId,
                 items, watermarkVars, rotation, dpi, orphans, splitVars,
                 pageSize>>

\* WatermarkTool: a click on the previous-page or next-page button, which
\* are rendered when pageCount > 1 and disabled on the first and on the last
\* page; handlePageChange(newPage) does nothing when newPage is out of range
HandlePageChange(newPage) ==
  /\ activeToolId = "watermark"
  /\ files # <<>>
  /\ pageCountState > 1
  /\ \/ newPage = currentPage - 1 /\ currentPage # 0
     \/ newPage = currentPage + 1 /\ currentPage # pageCountState - 1
  /\ IF newPage >= 0 /\ newPage < pageCountState
     THEN /\ Len(loads) < MaxLoads
          /\ currentPage' = newPage
          /\ loads' = Append(loads, [file |-> files[1], at |-> "preview",
                                     page |-> newPage])
     ELSE UNCHANGED <<currentPage, loads>>
  /\ saved' = <<>>
  /\ UNCHANGED <<files, pdfInfo, isProcessing, message, export,
                 splitOnlyVars, activeToolId, items, watermarkVars, rotation,
                 dpi, margins, orphans, splitVars, pageCountState,
                 previewImage, pageSize>>

(***************************************************************************)
(* RotateTool, CropTool and PdfToImageTool: settings and export.            *)
(***************************************************************************)
\* RotateTool: the buttons 90, 180, 270; WatermarkTool: the slider 0..360
SetRotation(r) ==
  /\ activeToolId \in {"rotate", "watermark"}
  /\ files # <<>>
  /\ r # rotation
  /\ rotation' = r
  /\ saved' = <<>>
  /\ UNCHANGED <<files, pdfInfo, isProcessing, message, loads, export,
                 splitOnlyVars, activeToolId, items, watermarkVars, dpi,
                 margins, orphans, splitVars, previewVars>>

SetDpi(d) ==
  /\ activeToolId = "image"
  /\ files # <<>>
  /\ d # dpi
  /\ dpi' = d
  /\ saved' = <<>>
  /\ UNCHANGED <<files, pdfInfo, isProcessing, message, loads, export,
                 splitOnlyVars, activeToolId, items, watermarkVars, rotation,
                 margins, orphans, splitVars, previewVars>>

\* one of the four margin inputs: Math.max(0, Number(e.target.value))
SetMargins(side, value) ==
  /\ activeToolId = "crop"
  /\ files # <<>>
  /\ LET v == IF value < 0 THEN 0 ELSE value
     IN  /\ margins[side] # v
         /\ margins' = [margins EXCEPT ![side] = v]
  /\ saved' = <<>>
  /\ UNCHANGED <<files, pdfInfo, isProcessing, message, loads, export,
                 splitOnlyVars, activeToolId, items, watermarkVars, rotation,
                 dpi, orphans, splitVars, previewVars>>

\* handleRotate up to await rotatePdf(files[0], rotation)
HandleRotate ==
  /\ activeToolId = "rotate"
  /\ files # <<>>
  /\ ~isProcessing
  /\ isProcessing' = TRUE
  /\ message' = <<"rotating">>
  /\ export' = Some([file |-> files[1], rotation |-> rotation])
  /\ saved' = <<>>
  /\ UNCHANGED <<files, pdfInfo, loads, splitOnlyVars, activeToolId, items,
                 watermarkVars, rotation, dpi, margins, orphans, splitVars,
                 previewVars>>

\* the rest of handleRotate
RotatePdfSettled(resolved) ==
  /\ activeToolId = "rotate"
  /\ export.some
  /\ LET e == export.val
     IN  IF resolved
         THEN ExportResolved([tool |-> "rotate", file |-> e.file,
                              suffix |-> "-rotated", extension |-> "pdf",
                              blob |-> RotatePdf(e.file, e.rotation)])
         ELSE ExportRejected(<<"rotate error">>)
  /\ UNCHANGED <<files, pdfInfo, loads, splitOnlyVars, activeToolId, items,
                 watermarkVars, rotation, dpi, margins, orphans, splitVars,
                 previewVars>>

\* handleCrop up to await cropPdf(files[0], margins)
HandleCrop ==
  /\ activeToolId = "crop"
  /\ files # <<>>
  /\ ~isProcessing
  /\ isProcessing' = TRUE
  /\ message' = <<"cropping">>
  /\ export' = Some([file |-> files[1], margins |-> margins])
  /\ saved' = <<>>
  /\ UNCHANGED <<files, pdfInfo, loads, splitOnlyVars, activeToolId, items,
                 watermarkVars, rotation, dpi, margins, orphans, splitVars,
                 previewVars>>

\* the rest of handleCrop
CropPdfSettled(resolved) ==
  /\ activeToolId = "crop"
  /\ export.some
  /\ LET e == export.val
     IN  IF resolved
         THEN ExportResolved([tool |-> "crop", file |-> e.file,
                              suffix |-> "-cropped", extension |-> "pdf",
                              blob |-> CropPdf(e.file, e.margins)])
         ELSE ExportRejected(<<"crop error">>)
  /\ UNCHANGED <<files, pdfInfo, loads, splitOnlyVars, activeToolId, items,
                 watermarkVars, rotation, dpi, margins, orphans, splitVars,
                 previewVars>>

\* handleConvert up to await convertPdfToImages(files[0], dpi)
HandleConvert ==
  /\ activeToolId = "image"
  /\ files # <<>>
  /\ ~isProcessing
  /\ isProcessing' = TRUE
  /\ message' = <<"converting">>
  /\ export' = Some([file |-> files[1], dpi |-> dpi])
  /\ saved' = <<>>
  /\ UNCHANGED <<files, pdfInfo, loads, splitOnlyVars, activeToolId, items,
                 watermarkVars, rotation, dpi, margins, orphans, splitVars,
                 previewVars>>

\* the rest of handleConvert.  convertPdfToImages rejects when the document
\* does not load or a getPage or render rejects; skipped are the pages whose
\* canvas gave no 2d context or no blob
ConvertPdfToImagesSettled(resolved, skipped) ==
  /\ activeToolId = "image"
  /\ export.some
  /\ LET e == export.val
     IN  /\ skipped \subseteq 1..PageCount(e.file)
         /\ IF resolved
            THEN ExportResolved(
                   [tool |-> "image", file |-> e.file, suffix |-> "-images",
                    extension |-> "zip",
                    blob |-> ConvertPdfToImages(e.file, <<e.dpi, 72>>,
                                                skipped)])
            ELSE /\ skipped = {}
                 /\ ExportRejected(<<"image error">>)
  /\ UNCHANGED <<files, pdfInfo, loads, splitOnlyVars, activeToolId, items,
                 watermarkVars, rotation, dpi, margins, orphans, splitVars,
                 previewVars>>

(***************************************************************************)
(* MergeTool.                                                               *)
(***************************************************************************)
ItemFiles(its) == [k \in 1..Len(its) |-> its[k].file]

ItemIds(its) == {its[k].id : k \in 1..Len(its)}

RECURSIVE ItemsWithoutId(_, _)
ItemsWithoutId(its, id) ==
  IF its = <<>> THEN <<>>
  ELSE IF Head(its).id = id THEN ItemsWithoutId(Tail(its), id)
       ELSE <<Head(its)>> \o ItemsWithoutId(Tail(its), id)

\* handleFilesSelected of MergeTool for one dropped file; id is the value of
\* Math.random().toString(36).substring(7)
MergeFilesSelected(f, id) ==
  /\ activeToolId = "merge"
  /\ Len(items) < MaxItems
  /\ items' = Append(items, [id |-> id, file |-> f])
  /\ message' = <<"">>
  /\ saved' = <<>>
  /\ UNCHANGED <<files, pdfInfo, isProcessing, loads, export, splitOnlyVars,
                 activeToolId, watermarkVars, rotation, dpi, margins, orphans,
                 splitVars, previewVars>>

\* handleRemoveFile(id) of MergeTool
MergeRemoveFile(id) ==
  /\ activeToolId = "merge"
  /\ id \in ItemIds(items)
  /\ items' = ItemsWithoutId(items, id)
  /\ saved' = <<>>
  /\ UNCHANGED <<files, pdfInfo, isProcessing, message, loads, export,
                 splitOnlyVars, activeToolId, watermarkVars, rotation, dpi,
                 margins, orphans, splitVars, previewVars>>

\* handleReorder(newItems): the list after item k was dragged past the item
\* below it
HandleReorder(k) ==
  /\ activeToolId = "merge"
  /\ k \in 1..(Len(items) - 1)
  /\ items' = [items EXCEPT ![k] = items[k + 1], ![k + 1] = items[k]]
  /\ saved' = <<>>
  /\ UNCHANGED <<files, pdfInfo, isProcessing, message, loads, export,
                 splitOnlyVars, activeToolId, watermarkVars, rotation, dpi,
                 margins, orphans, splitVars, previewVars>>

\* handleMerge up to await mergePdfs(files); the button is disabled while
\* isProcessing or with fewer than two items
HandleMerge ==
  /\ activeToolId = "merge"
  /\ ~isProcessing
  /\ Len(items) >= 2
  /\ isProcessing' = TRUE
  /\ message' = <<"merging">>
  /\ export' = Some([files |-> ItemFiles(items)])
  /\ saved' = <<>>
  /\ UNCHANGED <<files, pdfInfo, loads, splitOnlyVars, activeToolId, items,
                 watermarkVars, rotation, dpi, margins, orphans, splitVars,
                 previewVars>>

\* the rest of handleMerge
MergePdfsSettled(resolved) ==
  /\ activeToolId = "merge"
  /\ export.some
  /\ LET e == export.val
     IN  IF resolved
         THEN ExportResolved([tool |-> "merge", file |-> "merged-document",
                              suffix |-> "", extension |-> "pdf",
                              blob |-> MergePdfs(e.files)])
         ELSE ExportRejected(<<"merge error">>)
  /\ UNCHANGED <<files, pdfInfo, loads, splitOnlyVars, activeToolId, items,
                 watermarkVars, rotation, dpi, margins, orphans, splitVars,
                 previewVars>>

(***************************************************************************)
(* WatermarkTool and addWatermark.  A character outside ASCII is written    *)
(* by its code point, as in "U+673A".  addWatermark is followed from await  *)
(* to await; consecutive awaits between which it reads and writes nothing   *)
(* but its own locals are one step.                                         *)
(***************************************************************************)
\* the characters \u0000-\u007F that occur in the model's texts
Ascii ==
  Digits \cup
  {"A", "B", "C", "D", "E", "F", "G", "H", "I", "J", "K", "L", "M", "N", "O",
   "P", "Q", "R", "S", "T", "U", "V", "W", "X", "Y", "Z", "a", "b", "c", "d",
   "e", "f", "g", "h", "i", "j", "k", "l", "m", "n", "o", "p", "q", "r", "s",
   "t", "u", "v", "w", "x", "y", "z", " ", "{", "}", ":", "-", ",", "."}

\* /[^\u0000-\u007F]/.test(text)
HasNonLatin(text) == \E i \in 1..Len(text) : text[i] \notin Ascii

\* fontUrls
FontUrls == <<"cdn.jsdelivr.net", "unpkg.com">>

\* new Error("...Noto Serif SC...") of line 288
FontError == [isError |-> TRUE, message |-> <<"font error">>]

\* an Error thrown by pdf-lib or by file.arrayBuffer()
LibraryError == [isError |-> TRUE, message |-> <<"library error">>]

SetWatermarkType(t) ==
  /\ activeToolId = "watermark"
  /\ files # <<>>
  /\ t \in {"text", "file"}
  /\ t # watermarkType
  /\ watermarkType' = t
  /\ saved' = <<>>
  /\ UNCHANGED <<files, pdfInfo, isProcessing, message, loads, export,
                 splitOnlyVars, activeToolId, items, watermarkText,
                 watermarkFile, rotation, dpi, margins, orphans, splitVars,
                 previewVars>>

\* the text input, rendered for the 'text' type
SetWatermarkText(t) ==
  /\ activeToolId = "watermark"
  /\ files # <<>>
  /\ watermarkType = "text"
  /\ t # watermarkText
  /\ watermarkText' = t
  /\ saved' = <<>>
  /\ UNCHANGED <<files, pdfInfo, isProcessing, message, loads, export,
                 splitOnlyVars, activeToolId, items, watermarkType,
                 watermarkFile, rotation, dpi, margins, orphans, splitVars,
                 previewVars>>

\* the upload area of the 'file' type, rendered while no file is chosen
HandleWatermarkSelected(f) ==
  /\ activeToolId = "watermark"
  /\ files # <<>>
  /\ watermarkType = "file"
  /\ ~watermarkFile.some
  /\ watermarkFile' = Some(f)
  /\ saved' = <<>>
  /\ UNCHANGED <<files, pdfInfo, isProcessing, message, loads, export,
                 splitOnlyVars, activeToolId, items, watermarkType,
                 watermarkText, rotation, dpi, margins, orphans, splitVars,
                 previewVars>>

HandleRemoveWatermark ==
  /\ activeToolId = "watermark"
  /\ files # <<>>
  /\ watermarkType = "file"
  /\ watermarkFile.some
  /\ watermarkFile' = None
  /\ saved' = <<>>
  /\ UNCHANGED <<files, pdfInfo, isProcessing, message, loads, export,
                 splitOnlyVars, activeToolId, items, watermarkType,
                 watermarkText, rotation, dpi, margins, orphans, splitVars,
                 previewVars>>

\* the disabled attribute of the button that calls handleAddWatermark
WatermarkDisabled ==
  \/ isProcessing
  \/ (watermarkType = "file" /\ ~watermarkFile.some)
  \/ (watermarkType = "text" /\ watermarkText = <<>>)

\* handleAddWatermark up to the first await of addWatermark
HandleAddWatermark ==
  /\ activeToolId = "watermark"
  /\ files # <<>>
  /\ ~WatermarkDisabled
  /\ isProcessing' = TRUE
  /\ message' = <<"watermarking">>
  /\ export' =
       Some([file |-> files[1],
             options |-> [file |-> IF watermarkType = "file"
                                   THEN watermarkFile ELSE None,
                          text |-> IF watermarkType = "text"
                                   THEN Some(watermarkText) ELSE None,
                          rotation |-> rotation],
             at |-> "load", fetches |-> <<>>, doc |-> <<>>])
  /\ saved' = <<>>
  /\ UNCHANGED <<files, pdfInfo, loads, splitOnlyVars, activeToolId, items,
                 watermarkVars, rotation, dpi, margins, orphans, splitVars,
                 previewVars>>

\* mutant of FailureMessage: the generic message whatever was thrown
FailureMessageGeneric(error) == <<"watermark error">>

\* error instanceof Error ? error.message : (the generic message)
FailureMessage(error) ==
  IF error.isError THEN error.message ELSE <<"watermark error">>

\* the catch and finally of handleAddWatermark
AddWatermarkRejected(error) == ExportRejected(FailureMessage(error))

\* the suspended call moves on to its next await
AddWatermarkContinues(e) ==
  /\ export' = Some(e)
  /\ saved' = <<>>
  /\ UNCHANGED <<isProcessing, message>>

\* file.arrayBuffer() and PDFDocument.load settled; then the branch on
\* options.file and options.text up to its first await
WatermarkLoaded(resolved) ==
  /\ activeToolId = "watermark"
  /\ export.some
  /\ export.val.at = "load"
  /\ LET e == export.val
         next == IF e.options.file.some THEN "embedPdf"
                 ELSE IF e.options.text.some /\ e.options.text.val # <<>>
                 THEN IF HasNonLatin(e.options.text.val)
                      THEN "fetch" ELSE "embedFont"
                 ELSE "save"
     IN  IF resolved
         THEN AddWatermarkContinues(
                [e EXCEPT !.at = next,
                          !.doc = [i \in 1..PageCount(e.file) |->
                                     [index |-> i - 1, mark |-> None]]])
         ELSE AddWatermarkRejected(LibraryError)
  /\ UNCHANGED <<files, pdfInfo, loads, splitOnlyVars, activeToolId, items,
                 watermarkVars, rotation, dpi, margins, orphans, splitVars,
                 previewVars>>

\* mutant of NextFontUrl: a failed fetch is repeated on the same source
NextFontUrlRetrying(fetches) == FontUrls[1]

\* the url of the iteration of 'for (const url of fontUrls)' that follows
\* the fetches made so far
NextFontUrl(fetches) == FontUrls[Len(fetches) + 1]

\* one iteration of the loop over fontUrls settled.  outcome is "ok"
\* (res.ok and the body was read), "not ok" (res.ok is false) or "rejected"
\* (fetch or res.arrayBuffer() rejected, caught by the inner catch).  After
\* the last url without font bytes: the throw of line 282, caught and
\* thrown again at line 288
FontFetched(outcome) ==
  /\ activeToolId = "watermark"
  /\ export.some
  /\ export.val.at = "fetch"
  /\ outcome \in {"ok", "not ok", "rejected"}
  /\ LET e == export.val
         fetches == Append(e.fetches, [url |-> NextFontUrl(e.fetches),
                                       outcome |-> outcome])
     IN  IF outcome = "ok"
         THEN AddWatermarkContinues(
                [e EXCEPT !.fetches = fetches, !.at = "embedFont"])
         ELSE IF Len(fetches) < Len(FontUrls)
         THEN AddWatermarkContinues([e EXCEPT !.fetches = fetches])
         ELSE AddWatermarkRejected(FontError)
  /\ UNCHANGED <<files, pdfInfo, loads, splitOnlyVars, activeToolId, items,
                 watermarkVars, rotation, dpi, margins, orphans, splitVars,
                 previewVars>>

\* pdfDoc.embedFont settled: of the fetched font inside the outer try (a
\* rejection is thrown again as the font error), or of Helvetica.  Then
\* pages.forEach: the text of each page is drawn; failed are the pages on
\* which drawText throws, which the catch of line 353 passes over
FontEmbedded(resolved, failed) ==
  /\ activeToolId = "watermark"
  /\ export.some
  /\ export.val.at = "embedFont"
  /\ LET e == export.val
         text == e.options.text.val
     IN  /\ failed \subseteq 0..(Len(e.doc) - 1)
         /\ IF resolved
            THEN AddWatermarkContinues(
                   [e EXCEPT
                      !.at = "save",
                      !.doc = [i \in 1..Len(e.doc) |->
                                 IF (i - 1) \in failed THEN e.doc[i]
                                 ELSE [index |-> i - 1,
                                       mark |-> Some(CurrentText(
                                                  text, i - 1,
                                                  Len(e.doc)))]]])
            ELSE /\ failed = {}
                 /\ AddWatermarkRejected(IF HasNonLatin(text)
                                         THEN FontError ELSE LibraryError)
  /\ UNCHANGED <<files, pdfInfo, loads, splitOnlyVars, activeToolId, items,
                 watermarkVars, rotation, dpi, margins, orphans, splitVars,
                 previewVars>>

\* the watermark file was read, parsed and embedded, and drawPage ran on
\* every page; a rejection or a throw of any of these reaches the handler
OverlayEmbedded(resolved) ==
  /\ activeToolId = "watermark"
  /\ export.some
  /\ export.val.at = "embedPdf"
  /\ LET e == export.val
     IN  IF resolved
         THEN AddWatermarkContinues(
                [e EXCEPT
                   !.at = "save",
                   !.doc = [i \in 1..Len(e.doc) |->
                              [index |-> i - 1,
                               mark |-> Some(<<"page 1 of",
                                               e.options.file.val>>)]]])
         ELSE AddWatermarkRejected(LibraryError)
  /\ UNCHANGED <<files, pdfInfo, loads, splitOnlyVars, activeToolId, items,
                 watermarkVars, rotation, dpi, margins, orphans, splitVars,
                 previewVars>>

\* pdfDoc.save() settled, and the rest of handleAddWatermark
WatermarkSaved(resolved) ==
  /\ activeToolId = "watermark"
  /\ export.some
  /\ export.val.at = "save"
  /\ LET e == export.val
     IN  IF resolved
         THEN ExportResolved([tool |-> "watermark", file |-> e.file,
                              suffix |-> "-watermarked", extension |-> "pdf",
                              text |-> e.options.text,
                              blob |-> [kind |-> "pdf", pages |-> e.doc]])
         ELSE AddWatermarkRejected(LibraryError)
  /\ UNCHANGED <<files, pdfInfo, loads, splitOnlyVars, activeToolId, items,
                 watermarkVars, rotation, dpi, margins, orphans, splitVars,
                 previewVars>>

(***************************************************************************)
(* SpecWatermark: App showing WatermarkTool, the tool never changed.        *)
(***************************************************************************)
\* the state after App mounted the panel of id
MountedInit(id) ==
  /\ activeToolId = id
  /\ files = <<>>
  /\ pdfInfo = None
  /\ mode = "each"
  /\ ranges = <<>>
  /\ selectedIds = <<>>
  /\ pages = <<>>
  /\ isLoadingThumbnails = FALSE
  /\ isProcessing = FALSE
  /\ message = <<"">>
  /\ loads = <<>>
  /\ export = None
  /\ saved = <<>>
  /\ items = <<>>
  /\ watermarkType = "text"
  /\ watermarkText = Confidential
  /\ watermarkFile = None
  /\ rotation = IF id = "watermark" THEN 45 ELSE 90
  /\ dpi = 200
  /\ margins = NoMargins
  /\ orphans = <<>>
  /\ currentPage = 0
  /\ pageCountState = 0
  /\ previewImage = None
  /\ pageSize = NoSize

\* the watermark texts typed in the model: none, the initial one, Chinese
\* text, and a page number padded to three digits
UiTexts ==
  { <<>>, Confidential, <<"U+673A", "U+5BC6">>,
    PaddedPrefix \o <<"0", "3", "}">> }

WatermarkInit ==
  /\ MountedInit("watermark")
  /\ args = Input("each", None, None, None)
  /\ result = <<>>

WatermarkNext ==
  \/ \E f \in FileNames : PanelFilesSelected(f)
  \/ \E k \in 1..MaxLoads : PanelInfoResolved(k)
  \/ \E k \in 1..MaxLoads : PanelInfoRejected(k)
  \/ \E k \in 1..MaxLoads, resolved \in BOOLEAN :
       PanelPreviewSettled(k, resolved)
  \/ PanelRemoveFile
  \/ \E t \in {"text", "file"} : SetWatermarkType(t)
  \/ \E t \in UiTexts : SetWatermarkText(t)
  \/ HandleWatermarkSelected("b.pdf")
  \/ HandleRemoveWatermark
  \/ HandleAddWatermark
  \/ \E resolved \in BOOLEAN : WatermarkLoaded(resolved)
  \/ \E outcome \in {"ok", "not ok", "rejected"} : FontFetched(outcome)
  \/ \E resolved \in BOOLEAN, failed \in SUBSET (0..(MostPages - 1)) :
       FontEmbedded(resolved, failed)
  \/ \E resolved \in BOOLEAN : OverlayEmbedded(resolved)
  \/ \E resolved \in BOOLEAN : WatermarkSaved(resolved)

SpecWatermark == WatermarkInit /\ [][WatermarkNext]_vars

(***************************************************************************)
(* SpecApp: App with its six panels.  The panels are driven with one file   *)
(* (b.pdf) and one alternative value of each setting.                       *)
(***************************************************************************)
AppNext ==
  \/ \E id \in ToolIds : SetActiveToolId(id)
  \/ \E k \in 1..MaxOrphans, resolved \in BOOLEAN : OrphanSettled(k, resolved)
  \/ activeToolId = "split" /\ HandleFilesSelected("b.pdf")
  \/ activeToolId = "split" /\ \E k \in 1..MaxLoads : GetPdfInfoResolved(k)
  \/ activeToolId = "split" /\ \E k \in 1..MaxLoads : GetPdfInfoRejected(k)
  \/ activeToolId = "split"
       /\ \E k \in 1..MaxLoads, rendered \in SUBSET {0} :
            ThumbnailsRendered(k, rendered, 1)
  \/ activeToolId = "split" /\ TogglePageSelection(<<0, 1>>)
  \/ activeToolId = "split" /\ HandleRemoveFile
  \/ activeToolId = "split" /\ HandleRemovePages
  \/ activeToolId = "split" /\ \E m \in Modes : SetMode(m)
  \/ activeToolId = "split" /\ SetRanges(<<"x">>)
  \/ activeToolId = "split" /\ HandleSplit
  \/ activeToolId = "split" /\ \E readable \in BOOLEAN : SplitPdfSettled(readable)
  \/ PanelFilesSelected("b.pdf")
  \/ \E k \in 1..MaxLoads : PanelInfoResolved(k)
  \/ \E k \in 1..MaxLoads : PanelInfoRejected(k)
  \/ \E k \in 1..MaxLoads, resolved \in BOOLEAN :
       PanelPreviewSettled(k, resolved)
  \/ PanelRemoveFile
  \/ SetRotation(180)
  \/ SetDpi(300)
  \/ SetMargins("top", 10)
  \/ HandleRotate
  \/ \E resolved \in BOOLEAN : RotatePdfSettled(resolved)
  \/ HandleCrop
  \/ \E resolved \in BOOLEAN : CropPdfSettled(resolved)
  \/ HandleConvert
  \/ \E resolved \in BOOLEAN, skipped \in SUBSET (1..MostPages) :
       ConvertPdfToImagesSettled(resolved, skipped)
  \/ \E id \in 1..MaxItems : MergeFilesSelected("b.pdf", id)
  \/ \E id \in 1..MaxItems : MergeRemoveFile(id)
  \/ \E k \in 1..MaxItems : HandleReorder(k)
  \/ HandleMerge
  \/ \E resolved \in BOOLEAN : MergePdfsSettled(resolved)
  \/ \E t \in {"text", "file"} : SetWatermarkType(t)
  \/ SetWatermarkText(<<"U+673A", "U+5BC6">>)
  \/ HandleWatermarkSelected("b.pdf")
  \/ HandleRemoveWatermark
  \/ HandleAddWatermark
  \/ \E resolved \in BOOLEAN : WatermarkLoaded(resolved)
  \/ \E outcome \in {"ok", "not ok", "rejected"} : FontFetched(outcome)
  \/ \E resolved \in BOOLEAN, failed \in SUBSET (0..(MostPages - 1)) :
       FontEmbedded(resolved, failed)
  \/ \E resolved \in BOOLEAN : OverlayEmbedded(resolved)
  \/ \E resolved \in BOOLEAN : WatermarkSaved(resolved)

SpecApp == Init /\ [][AppNext]_vars

(***************************************************************************)
(* Claims about the export handlers.                                        *)
(***************************************************************************)
\* the exports of the panel of a tool that have not settled
InFlight(tool) ==
  (IF activeToolId = tool /\ export.some THEN 1 ELSE 0)
    + Cardinality({k \in 1..Len(orphans) : orphans[k].tool = tool})

\* C15: in each tool panel at most one export is in flight at any time,
\* whatever the user clicks and in whatever order the calls settle.
C15_NoReentrantExports == \A tool \in ToolIds : InFlight(tool) <= 1

\* the export of the mounted panel settles in this step
ExportSettles ==
  export.some /\ ~export'.some /\ activeToolId' = activeToolId

\* the export of an unmounted panel settles in this step
OrphanSettles == Len(orphans') < Len(orphans)

\* the failure messages of the export handler of a tool
FailureMessagesOf(tool) ==
  CASE tool = "split" -> {<<"error">>}
    [] tool = "merge" -> {<<"merge error">>}
    [] tool = "rotate" -> {<<"rotate error">>}
    [] tool = "crop" -> {<<"crop error">>}
    [] tool = "image" -> {<<"image error">>}
    [] tool = "watermark" ->
         {<<"watermark error">>, FontError.message, LibraryError.message}

\* C16: when the library call of an export fails, no download is offered,
\* the message becomes the failure message of the tool and not the 'done'
\* message, and the file, the view, the selection and the settings stay as
\* they are; a download and the 'done' message come together or not at all.
C16_FailedExportOffersNothing ==
  [][/\ ExportSettles =>
          /\ (saved' = <<>>) <=> (message' # <<"done">>)
          /\ saved' = <<>> => message' \in FailureMessagesOf(activeToolId)
          /\ ~isProcessing'
          /\ UNCHANGED <<files, pdfInfo, splitOnlyVars, items, watermarkVars,
                         rotation, dpi, margins>>
     /\ OrphanSettles =>
          UNCHANGED <<files, pdfInfo, splitOnlyVars, items, watermarkVars,
                      rotation, dpi, margins, message, isProcessing,
                      export>>]_vars

C16_Witness ==
  /\ activeToolId = "crop"
  /\ message = <<"crop error">>
  /\ saved = <<>>
  /\ ~isProcessing
  /\ files = <<"b.pdf">>
  /\ margins.top = 10

\* whether the output handed to saveAs covers every page of the document
Complete(call) ==
  IF "orphan" \in DOMAIN call \/ "tool" \notin DOMAIN call THEN TRUE
  ELSE CASE call.tool = "watermark" ->
              /\ Len(call.blob.pages) = PageCount(call.file)
              /\ \A i \in 1..Len(call.blob.pages) : call.blob.pages[i].mark.some
         [] call.tool = "image" ->
              \A i \in 1..PageCount(call.file) :
                \E n \in 1..Len(call.blob.docs) : call.blob.docs[n].name = i
         [] call.tool \in {"rotate", "crop"} ->
              Len(call.blob.pages) = PageCount(call.file)
         [] call.tool = "merge" -> TRUE

\* C17: an export that ends with a download covers every page: no page is
\* missing from the images and none is left without the watermark.
C17_NoPartialOutput == saved # <<>> => Complete(saved[1])

\* C18: with a character outside ASCII in the text, a watermark that fails
\* because no font was loaded or embedded shows the font message; with pure
\* ASCII text no font is fetched and the font message is never shown.
C18_FontFailureIsDistinguished ==
  [][(activeToolId = "watermark" /\ export.some
        /\ export.val.options.text.some) =>
       LET e == export.val
           text == e.options.text.val
       IN  /\ (HasNonLatin(text) /\ ExportSettles
                 /\ e.at \in {"fetch", "embedFont"}) =>
                (message' = FontError.message /\ saved' = <<>>)
           /\ ~HasNonLatin(text) =>
                /\ e.fetches = <<>>
                /\ e.at # "fetch"
                /\ ExportSettles => message' # FontError.message]_vars

C18_Witness ==
  /\ activeToolId = "watermark"
  /\ HasNonLatin(watermarkText)
  /\ message = FontError.message
  /\ ~isProcessing
  /\ saved = <<>>

RECURSIVE InSelectionOrder(_, _)
InSelectionOrder(ps, ids) ==
  IF ids = <<>> THEN <<>>
  ELSE OriginalIndices(PagesWithIds(ps, <<Head(ids)>>))
         \o InSelectionOrder(ps, Tail(ids))

\* C20: in 'extract' and 'selected' mode SplitTool hands the selected pages
\* to splitPdf in the order in which the user selected them, and the pages
\* of the download (the documents of the archive) follow that order.
C20_ExportFollowsSelectionOrder ==
  [][/\ (~export.some /\ export'.some /\ mode \in {"extract", "selected"}) =>
          export'.val.call.selectedPages.val
            = InSelectionOrder(pages, selectedIds)
     /\ (ExportSettles /\ saved' # <<>> /\ export.val.mode = "extract") =>
          saved'[1].blob.docs[1].pages
            = export.val.call.selectedPages.val]_vars

(***************************************************************************)
(* FairSpecExports: App with its six panels, in each of which the user      *)
(* picks b.pdf and exports with the settings as they are (and, in           *)
(* WatermarkTool, with each kind of watermark), and in which the library    *)
(* call of the mounted panel settles: every promise the handlers await is   *)
(* resolved or rejected by the library, the network or the browser.         *)
(***************************************************************************)
ExportsNext ==
  \/ \E id \in ToolIds : SetActiveToolId(id)
  \/ \E k \in 1..MaxOrphans, resolved \in BOOLEAN : OrphanSettled(k, resolved)
  \/ activeToolId = "split" /\ HandleFilesSelected("b.pdf")
  \/ activeToolId = "split" /\ \E k \in 1..MaxLoads : GetPdfInfoResolved(k)
  \/ activeToolId = "split"
       /\ \E k \in 1..MaxLoads : ThumbnailsRendered(k, {0}, 1)
  \/ activeToolId = "split" /\ HandleSplit
  \/ PanelFilesSelected("b.pdf")
  \/ \E k \in 1..MaxLoads : PanelInfoResolved(k)
  \/ \E k \in 1..MaxLoads : PanelPreviewSettled(k, TRUE)
  \/ \E id \in 1..MaxItems : MergeFilesSelected("b.pdf", id)
  \/ \E t \in {"text", "file"} : SetWatermarkType(t)
  \/ SetWatermarkText(<<"U+673A", "U+5BC6">>)
  \/ HandleWatermarkSelected("b.pdf")
  \/ HandleRotate
  \/ HandleCrop
  \/ HandleConvert
  \/ HandleMerge
  \/ HandleAddWatermark
  \/ activeToolId = "split" /\ \E readable \in BOOLEAN : SplitPdfSettled(readable)
  \/ \E resolved \in BOOLEAN : RotatePdfSettled(resolved)
  \/ \E resolved \in BOOLEAN : CropPdfSettled(resolved)
  \/ \E resolved \in BOOLEAN, skipped \in SUBSET (1..MostPages) :
       ConvertPdfToImagesSettled(resolved, skipped)
  \/ \E resolved \in BOOLEAN : MergePdfsSettled(resolved)
  \/ \E resolved \in BOOLEAN : WatermarkLoaded(resolved)
  \/ \E outcome \in {"ok", "not ok", "rejected"} : FontFetched(outcome)
  \/ \E resolved \in BOOLEAN, failed \in SUBSET (0..(MostPages - 1)) :
       FontEmbedded(resolved, failed)
  \/ \E resolved \in BOOLEAN : OverlayEmbedded(resolved)
  \/ \E resolved \in BOOLEAN : WatermarkSaved(resolved)

SpecExports == Init /\ [][ExportsNext]_vars

\* a call awaited by the export handler of the mounted panel settles, one
\* way or the other
LibraryCallSettles ==
  \/ activeToolId = "split" /\ \E readable \in BOOLEAN : SplitPdfSettled(readable)
  \/ \E resolved \in BOOLEAN : RotatePdfSettled(resolved)
  \/ \E resolved \in BOOLEAN : CropPdfSettled(resolved)
  \/ \E resolved \in BOOLEAN, skipped \in SUBSET (1..MostPages) :
       ConvertPdfToImagesSettled(resolved, skipped)
  \/ \E resolved \in BOOLEAN : MergePdfsSettled(resolved)
  \/ \E resolved \in BOOLEAN : WatermarkLoaded(resolved)
  \/ \E outcome \in {"ok", "not ok", "rejected"} : FontFetched(outcome)
  \/ \E resolved \in BOOLEAN, failed \in SUBSET (0..(MostPages - 1)) :
       FontEmbedded(resolved, failed)
  \/ \E resolved \in BOOLEAN : OverlayEmbedded(resolved)
  \/ \E resolved \in BOOLEAN : WatermarkSaved(resolved)

FairSpecExports == SpecExports /\ WF_vars(LibraryCallSettles)

\* the messages an export handler ends with
EndMessages(tool) == {<<"done">>} \cup FailureMessagesOf(tool)

MergeInit ==
  /\ MountedInit("merge")
  /\ args = Input("each", None, None, None)
  /\ result = <<>>

MergeNext ==
  \/ \E f \in FileNames, id \in 1..MaxItems : MergeFilesSelected(f, id)
  \/ \E id \in 1..MaxItems : MergeRemoveFile(id)
  \/ \E k \in 1..MaxItems : HandleReorder(k)
  \/ HandleMerge
  \/ \E resolved \in BOOLEAN : MergePdfsSettled(resolved)

SpecMerge == MergeInit /\ [][MergeNext]_vars

\* the number of pages of the files
RECURSIVE TotalPages(_)
TotalPages(fs) ==
  IF fs = <<>> THEN 0 ELSE PageCount(Head(fs)) + TotalPages(Tail(fs))

\* the pages before file k of the files
PagesBefore(fs, k) == TotalPages(SubSeq(fs, 1, k - 1))

\* whether ps is the pages of the files: the pages of file k, in their own
\* order, come after all pages of the files before k
IsConcatenation(ps, fs) ==
  /\ Len(ps) = TotalPages(fs)
  /\ \A k \in 1..Len(fs) :
       \A i \in 1..PageCount(fs[k]) :
         ps[PagesBefore(fs, k) + i] = [file |-> fs[k], index |-> i - 1]

PreviewText(text, shownPage, count) ==
  LET afterPage == ReplaceAll(text, PagePlaceholder,
                              NumberToString(shownPage + 1))
      afterTotal == ReplaceAll(afterPage, TotalPlaceholder,
                               NumberToString(count))
  IN  ReplacePadded(afterTotal, shownPage)

PreviewNext ==
  \/ \E f \in FileNames : PanelFilesSelected(f)
  \/ \E k \in 1..MaxLoads : PanelInfoResolved(k)
  \/ \E k \in 1..MaxLoads : PanelInfoRejected(k)
  \/ \E k \in 1..MaxLoads, resolved \in BOOLEAN :
       PanelPreviewSettled(k, resolved)
  \/ PanelRemoveFile
  \/ \E newPage \in (0 - 1)..MostPages : HandlePageChange(newPage)
  \/ SetWatermarkText(PagePlaceholder \o <<"/">> \o TotalPlaceholder)

SpecPreview == WatermarkInit /\ [][PreviewNext]_vars

\* the render that was pending alone resolves in this step and its image is
\* shown
LastRenderShown ==
  /\ Len(loads) = 1
  /\ loads[1].at = "preview"
  /\ loads' = <<>>
  /\ previewImage' = Some([file |-> loads[1].file, page |-> loads[1].page])

\* C28: with a file selected and a page count of one or more, currentPage is
\* a page of that count; and when the last pending render resolves, the
\* preview is the image, and pageSize the size, of page currentPage of the
\* selected file, in whatever order the renders were completed.
C28_PreviewShowsCurrentPage ==
  [][/\ (files' # <<>> /\ pageCountState' >= 1) =>
          (0 <= currentPage' /\ currentPage' < pageCountState')
     /\ (LastRenderShown /\ files # <<>>) =>
          LET r == RenderPageAsImage(files[1], currentPage, PreviewScale)
          IN  /\ previewImage' = Some(r.image)
              /\ pageSize' = [width |-> r.width, height |-> r.height]]_vars

\* the preview overlay of a text watermark is rendered
TextPreviewShown ==
  /\ activeToolId = "watermark"
  /\ files # <<>>
  /\ previewImage.some
  /\ watermarkType = "text"
  /\ watermarkText # <<>>

\* C23: whenever the preview shows the text on a page of the selected file,
\* the text it shows is the text addWatermark draws on that page of the file.
C23_PreviewExpandsAsExport ==
  (TextPreviewShown /\ currentPage < PageCount(files[1])) =>
    PreviewText(watermarkText, currentPage, pageCountState)
      = CurrentText(watermarkText, currentPage, PageCount(files[1]))

(***************************************************************************)
(* Claims about the view and the selection of SplitTool.                    *)
(***************************************************************************)
\* C24: while no file is selected no load writes pages or pdfInfo; pdfInfo,
\* when set, is the info of the selected file; and with no file selected and
\* no load pending, pages is empty and pdfInfo is null.
C24_ViewBelongsToSelectedFile ==
  [][/\ (files = <<>> /\ files' = <<>>) =>
          (pages' = pages /\ pdfInfo' = pdfInfo)
     /\ (files' # <<>> /\ pdfInfo'.some) => pdfInfo'.val = files'[1]
     /\ (files' = <<>> /\ loads' = <<>>) =>
          (pages' = <<>> /\ pdfInfo' = None)]_vars


\* the ids of the selection, as a set
SelectedSet(ids) == {ids[i] : i \in 1..Len(ids)}

\* C25: the selection has no duplicates and holds only ids of pages of the
\* view; a click on a page changes the membership of exactly that page, so a
\* second click restores the selection; removing pages empties the selection;
\* switching the mode changes neither the selection nor the view.
C25_SelectionWithinView ==
  [][/\ \A i \in 1..Len(selectedIds') : selectedIds'[i] \in PageIds'
     /\ \A i, j \in 1..Len(selectedIds') :
          selectedIds'[i] = selectedIds'[j] => i = j
     /\ (selectedIds' # selectedIds /\ pages' = pages /\ files' = files) =>
          \E id \in PageIds :
            \/ /\ id \notin SelectedSet(selectedIds)
               /\ SelectedSet(selectedIds') = SelectedSet(selectedIds) \cup {id}
            \/ /\ id \in SelectedSet(selectedIds)
               /\ SelectedSet(selectedIds') = SelectedSet(selectedIds) \ {id}
     /\ (files' = files /\ message' = <<"removed">> /\ pages' # pages) =>
          selectedIds' = <<>>
     /\ mode' # mode => (selectedIds' = selectedIds /\ pages' = pages)]_vars


(***************************************************************************)
(* The view of SplitTool for a document of more pages than the thumbnail    *)
(* loop renders: loading, selecting and removing pages, without export.     *)
(* Every render resolves here, a file is dropped when no load is pending,   *)
(* and the user clicks only the first two and the last page of the grid.    *)
(***************************************************************************)

\* the pages the user clicks, and so the only ones that can be removed
Clickable == {0, 1, ThumbLimit - 1}

LongNext ==
  \/ (loads = <<>> /\ HandleFilesSelected("long.pdf"))
  \/ \E k \in 1..MaxLoads : GetPdfInfoResolved(k)
  \/ \E k \in 1..MaxLoads : GetPdfInfoRejected(k)
  \/ \E k \in 1..MaxLoads, t \in 1..MaxStamp :
       /\ k <= Len(loads)
       /\ ThumbnailsRendered(k, 0..(Limit(loads[k].file) - 1), t)
  \/ \E i \in Clickable, t \in 1..MaxStamp : TogglePageSelection(<<i, t>>)
  \/ HandleRemoveFile
  \/ HandleRemovePages
  \/ \E m \in Modes : SetMode(m)

SpecLong == Init /\ [][LongNext]_vars

\* the pages of all documents of a download, as a set
PagesSaved(blob) ==
  UNION {{blob.docs[k].pages[n] : n \in 1..Len(blob.docs[k].pages)} :
           k \in 1..Len(blob.docs)}

\* C26: when the load of the selected file ends, the view holds every page
\* of the document; a 'delete' export holds every page the user did not
\* remove, and an 'each' export has one document for each of them.
C26_NoPageLost ==
  [][/\ \A k \in 1..Len(loads) :
          (/\ loads[k].at = "render"
           /\ loads' = RemoveAt(loads, k)
           /\ files = <<loads[k].file>>) =>
            OriginalIndices(pages') = ArrayFromLength(PageCount(files[1]))
     /\ (export.some /\ saved' # <<>>
           /\ export.val.mode \in {"delete", "each"}) =>
          LET kept == (0..(PageCount(export.val.file) - 1)) \ Clickable
          IN /\ kept \subseteq PagesSaved(saved'[1].blob)
             /\ export.val.mode = "each" =>
                  Len(saved'[1].blob.docs) >= Cardinality(kept)]_vars


\* C27: when handleSplit calls splitPdf in 'each' or 'ranges' mode no load is
\* pending and thumbnail loading has finished; and no export of these modes
\* saves an archive without documents.
C27_NoExportWhileLoading ==
  [][/\ (~export.some /\ export'.some /\ mode \in {"each", "ranges"}) =>
          (~isLoadingThumbnails /\ loads = <<>>)
     /\ (export.some /\ export.val.mode \in {"each", "ranges"}
           /\ saved' # <<>>) =>
          saved'[1].blob.docs # <<>>]_vars


(***************************************************************************)
(* SpecOverlay: addWatermark, file branch: where the first page of the      *)
(* watermark document is drawn on a page, as a function of page size,      *)
(* anchor and rotation.                                                     *)
(***************************************************************************)
\* the options of page.drawPage(watermarkPage, {...}); rotate is the
\* rotationAngle itself
PlaceOverlay(width, height, xRatio, yRatio) ==
  [x |-> Minus(Times(width, xRatio), Half(width)),
   y |-> Minus(Times(height, Minus(Whole(1), yRatio)), Half(height)),
   width |-> width,
   height |-> height]

OverlayInit ==
  /\ \E w \in PageWidths, h \in PageHeights, x \in Anchors, y \in Anchors,
        rot \in Rotations :
       args = [width |-> w, height |-> h, x |-> x, y |-> y, rotation |-> rot]
  /\ result = <<>>
  /\ ToolInit

CallPlaceOverlay ==
  /\ result = <<>>
  /\ result' = <<PlaceOverlay(args.width, args.height, args.x, args.y)>>
  /\ UNCHANGED <<args, toolVars>>

OverlayNext == CallPlaceOverlay

SpecOverlay == OverlayInit /\ [][OverlayNext]_vars

\* where the centre of the drawn overlay lands: drawPage scales the embedded
\* page to width x height with its lower left corner at (x, y) and turns it
\* counterclockwise about that corner
OverlayCentre(drawn, angle) ==
  LET rv == RotateCcw([x |-> Half(drawn.width), y |-> Half(drawn.height)],
                      angle)
  IN  [x |-> Plus(drawn.x, rv.x), y |-> Plus(drawn.y, rv.y)]

\* C29: for every page size, anchor and rotation, the centre of the drawn
\* overlay is the anchor point (pageWidth * x, pageHeight * (1 - y)).
C29_OverlayCentreOnAnchor ==
  result # <<>> =>
    OverlayCentre(result[1], args.rotation) = AnchorPoint(args)


(***************************************************************************)
(* SpecCrop: App showing CropTool, the tool never changed.                  *)
(***************************************************************************)
\* the numbers typed into a margin input; 400 + 400 is the page height and
\* more than the page width
MarginInputs == {0 - 5, 0, 400}

Sides == {"top", "bottom", "left", "right"}

CropInit ==
  /\ MountedInit("crop")
  /\ args = Input("each", None, None, None)
  /\ result = <<>>

CropNext ==
  \/ \E f \in FileNames : PanelFilesSelected(f)
  \/ \E k \in 1..MaxLoads : PanelInfoResolved(k)
  \/ \E k \in 1..MaxLoads : PanelInfoRejected(k)
  \/ \E k \in 1..MaxLoads, resolved \in BOOLEAN :
       PanelPreviewSettled(k, resolved)
  \/ PanelRemoveFile
  \/ \E side \in Sides, value \in MarginInputs : SetMargins(side, value)
  \/ HandleCrop
  \/ \E resolved \in BOOLEAN : CropPdfSettled(resolved)

SpecCrop == CropInit /\ [][CropNext]_vars

\* a rectangle with positive width and height that lies on the page
InsidePage(box) ==
  /\ box.width > 0
  /\ box.height > 0
  /\ box.x >= 0
  /\ box.y >= 0
  /\ box.x + box.width <= PageSize.width
  /\ box.y + box.height <= PageSize.height

FullPage ==
  [x |-> 0, y |-> 0, width |-> PageSize.width, height |-> PageSize.height]

\* C30: every page of a cropped download has a crop box of positive width
\* and height inside the page, whatever margins the inputs were given; with
\* all margins 0 the crop box is the full page.
C30_CropBoxInsidePage ==
  [][(export.some /\ saved' # <<>>) =>
       \A i \in 1..Len(saved'[1].blob.pages) :
         /\ InsidePage(saved'[1].blob.pages[i].cropBox)
         /\ export.val.margins = NoMargins =>
              saved'[1].blob.pages[i].cropBox = FullPage]_vars

====
